---- MODULE Spec2Model ----
(***************************************************************************)
(* Workspace indexing pipeline of chaosmith-core: token chunker, run       *)
(* manager, scan / embed / all coordinator and the store they write to.    *)
(*                                                                         *)
(* Strings that the code inspects byte by byte (file text, identifiers,    *)
(* paths) are sequences of one-character strings; a byte of file text is   *)
(* one of the elements of Bytes.                                           *)
(***************************************************************************)
EXTENDS Integers, Sequences, FiniteSets, TLC

\* ------------------------------------------------------------------ bounds
\* Stand-in for maxTokensPerChunk = 768 (part_010:10): the window size in
\* tokens, scaled down so that texts of a few bytes span several windows.
maxTokensPerChunk == 2
\* Longest file text, in bytes, given to the chunker.
MaxTextLen == 3
\* Longest token of the byte-pair vocabulary, in bytes.
MaxTokenBytes == 2
\* Last instant of the wall clock.
MaxClock == 3
\* Invocations of Scan / Embed / All in one behaviour.
MaxRuns == 2
\* Longest part given to hexID, and most parts in one call.
MaxIdLen == 2
MaxParts == 2
\* Calls of AddArtifact on one Run.
MaxArtifacts == 3
\* Statements per request of the store client (500 in the source), bytes per
\* request (512 KiB in the source), and most statements given to one Exec.
maxStatementsPerCall == 2
maxBytesPerCall == 30
MaxStatements == 5
\* The text search tools: the largest limit (100 in the source), the
\* documented default (20 in the source), and most lines in a file.
searchMaxLimit == 4
searchDefaultLimit == 2
MaxLines == 4
\* Chunks per call of the embedding service (16 in the source).
embedBatchSize == 2
\* PTY processes started in one behaviour, at most.
MaxPty == 2
\* Files larger than this are not embedded.
maxEmbedFileBytes == 262144

\* --------------------------------------------------------------- variables
VARIABLES
    cpc,        \* chunker harness: "idle" before the call, "done" after it
    ctext,      \* the text given to chunk
    ctokens,    \* the token sequence Encode produced for it (token = its bytes)
    cres        \* what chunk returned: [err, chunks]

chunkVars == <<cpc, ctext, ctokens, cres>>

VARIABLES
    rclock,     \* run manager harness: the wall clock (an instant, > 0)
    rprev,      \* run manager harness: the call of New before the last one
    rlast       \* run manager harness: the last call of New

runVars == <<rclock, rprev, rlast>>

VARIABLES
    ires        \* identifier calls: two calls of hexID, side by side

idVars == <<ires>>

VARIABLES
    arun,       \* artifact calls: the Run the calls are made on
    apassed,    \* artifact calls: the paths passed to AddArtifact, in order
    agot        \* artifact calls: the slice the last Artifacts() returned

artVars == <<arun, apassed, agot>>

VARIABLES
    eres        \* store client calls: one call of Exec and what it sent

execVars == <<eres>>

VARIABLES
    sres        \* text search calls: one call of a search tool and its result

searchVars == <<sres>>

VARIABLES
    croot,      \* concurrent scans: the workspace root both scan ("" before)
    cproc,      \* concurrent scans: where each performScan stands, its locals
    crows,      \* concurrent scans: the rows of the store they share
    cedges      \* concurrent scans: the edges of the store they share

concVars == <<croot, cproc, crows, cedges>>

VARIABLES
    preg,       \* PTY sessions: ptyRegistry.sessions[id], 0 for no entry
    psess,      \* PTY sessions: the ptySessions created so far, in order
    pcall,      \* PTY sessions: where each caller of ExecPTY stands
    premoved    \* history: <<target, removed>> of every removeSession that
                \* deleted the entry

ptyVars == <<preg, psess, pcall, premoved>>

\* The state of the concurrent operations.
sideVars == <<concVars, ptyVars>>

\* The state of the calls of single functions other than chunk and New.
unitVars == <<idVars, artVars, execVars, searchVars, sideVars>>

VARIABLES
    clock,      \* the wall clock read by time.Now()
    nruns,      \* invocations of Scan / Embed / All started so far
    rows,       \* the store's rows
    edges,      \* the store's edges
    adirs,      \* artifact directories on disk
    afiles,     \* artifact files on disk
    pc,         \* where the current invocation stands
    op,         \* "scan", "embed" or "all": the operation invoked
    req,        \* its WorkspaceRequest
    cancelled,  \* the invocation's context is cancelled
    run,        \* its Run (NoRun before one is allocated)
    report,     \* its RunReport (nil before one is created)
    retErr,     \* the error it returned ("" for nil)
    walkPos,    \* the position of the tree walk in Tree
    dirs,       \* performScan: dirs
    files,      \* performScan: files
    ops,        \* the store calls the current stage still has to make
    artifacts,  \* performScan: artifacts
    scanRes,    \* the Artifacts of the scanResult performScan returned
    chunks,     \* performEmbedding: chunks
    batchI,     \* populateVectors: i
    trace,      \* what the invocation did so far, in order
    hstart,     \* history: the store when the invocation began
    hissued,    \* history: keys and edges the invocation's scan wrote
    hscanEnd,   \* history: the store when the invocation's scan succeeded
    hprev,      \* history: the last scan that succeeded in an earlier
                \* invocation, when no scan has failed since
    hcall       \* history: the invocation's calls, and the last call, of the embedding
                \* service, what was sent and what came back

pipeVars == <<clock, nruns, rows, edges, adirs, afiles, pc, op, req,
              cancelled, run, report, retErr, walkPos, dirs, files, ops,
              artifacts, scanRes, chunks, batchI, trace, hstart, hissued,
              hscanEnd, hprev, hcall>>

vars == <<chunkVars, runVars, pipeVars, unitVars>>

\* ------------------------------------------------------------ string helpers
Min(a, b) == IF a < b THEN a ELSE b

RECURSIVE Concat(_)
\* Concatenation of a sequence of sequences.
Concat(ss) == IF ss = <<>> THEN <<>> ELSE Head(ss) \o Concat(Tail(ss))

\* text[from:to] of Go: 0-based, half open.
Slice(s, from, to) == SubSeq(s, from + 1, to)

RECURSIVE IndexFrom(_, _, _)
\* strings.Index(hay, needle), scanning from offset i: the first offset at
\* which needle occurs in hay, or -1.
IndexFrom(hay, needle, i) ==
    IF i + Len(needle) > Len(hay) THEN -1
    ELSE IF Slice(hay, i, i + Len(needle)) = needle THEN i
    ELSE IndexFrom(hay, needle, i + 1)

Index(hay, needle) == IndexFrom(hay, needle, 0)

\* ---------------------------------------------------------------- tokenizer
\* Bytes of file text: two ASCII letters, and the three bytes EF BF BD that
\* encode U+FFFD when they stand together (EF followed by two continuation
\* bytes is a well-formed three-byte rune) and are ill-formed alone.
Ascii == {"a", "b"}
ContBytes == {"BF", "BD"}
Bytes == Ascii \cup {"EF"} \cup ContBytes
Replacement == <<"EF", "BF", "BD">>

RECURSIVE RunesFrom(_, _)
\* []rune(text) written back as UTF-8, from offset i (1-based): every
\* ill-formed byte becomes U+FFFD, well-formed runes are kept.
RunesFrom(text, i) ==
    IF i > Len(text) THEN <<>>
    ELSE IF text[i] \in Ascii THEN <<text[i]>> \o RunesFrom(text, i + 1)
    ELSE IF /\ text[i] = "EF"
            /\ i + 2 <= Len(text)
            /\ text[i + 1] \in ContBytes
            /\ text[i + 2] \in ContBytes
         THEN SubSeq(text, i, i + 2) \o RunesFrom(text, i + 3)
    ELSE Replacement \o RunesFrom(text, i + 1)

Sanitize(text) == RunesFrom(text, 1)

RECURSIVE Pieces(_)
\* Every way to cut a byte string into consecutive non-empty tokens of at most
\* MaxTokenBytes bytes: the splits a byte-pair vocabulary can produce.
Pieces(s) ==
    IF s = <<>> THEN {<<>>}
    ELSE UNION { { <<SubSeq(s, 1, n)>> \o rest :
                     rest \in Pieces(SubSeq(s, n + 1, Len(s))) } :
                 n \in 1..Min(Len(s), MaxTokenBytes) }

\* The token sequences Encode(text) can return: a split of the text's runes.
Encode(text) == Pieces(Sanitize(text))

\* Decode(tokens): the tokens' bytes, concatenated.
Decode(tokens) == Concat(tokens)

\* ------------------------------------------------------------------ chunker
\* Mutant: the chunk counts its bytes where it should count its tokens.
tokenChunkCountsBytes(text, startPos, endPos, n) ==
    [Text |-> Slice(text, startPos, endPos), Start |-> startPos,
     End |-> endPos, TokenCount |-> endPos - startPos]

tokenChunk(text, startPos, endPos, n) ==
    [Text |-> Slice(text, startPos, endPos), Start |-> startPos,
     End |-> endPos, TokenCount |-> n]

\* Mutant: a window whose decoded text is not at the cursor is placed at the
\* end of the text, without a search.
alignCursorAtEnd(text, byteCursor, chunkText) ==
    IF \/ byteCursor + Len(chunkText) > Len(text)
       \/ Slice(text, byteCursor, byteCursor + Len(chunkText)) # chunkText
    THEN IF Len(chunkText) > Len(text) THEN -1
         ELSE Len(text) - Len(chunkText)
    ELSE byteCursor

\* The cursor after the alignment check of one window, or -1 when the decoded
\* text is not found at or after it.
alignCursor(text, byteCursor, chunkText) ==
    IF \/ byteCursor + Len(chunkText) > Len(text)
       \/ Slice(text, byteCursor, byteCursor + Len(chunkText)) # chunkText
    THEN LET idx == Index(Slice(text, byteCursor, Len(text)), chunkText)
         IN  IF idx = -1 THEN -1 ELSE byteCursor + idx
    ELSE byteCursor

\* Mutant: the cursor is not moved past the chunk that was appended.
advanceCursorStuck(endPos) == 0

\* The cursor after a chunk was appended.
advanceCursor(endPos) == endPos

\* Mutant: a full window is cut one token short, so that token is in no window.
windowEndDropsToken(start, ntokens) ==
    IF start + maxTokensPerChunk > ntokens THEN ntokens
    ELSE start + maxTokensPerChunk - 1

\* The end of the token window that starts at start.
windowEnd(start, ntokens) ==
    IF start + maxTokensPerChunk > ntokens THEN ntokens
    ELSE start + maxTokensPerChunk

RECURSIVE chunkLoop(_, _, _, _, _)
\* The for loop of chunk: start is the window's first token (0-based).
chunkLoop(text, tokens, start, byteCursor, acc) ==
    IF start >= Len(tokens) THEN [err |-> FALSE, chunks |-> acc]
    ELSE LET end == windowEnd(start, Len(tokens))
             chunkTokens == Slice(tokens, start, end)
             chunkText == Decode(chunkTokens)
         IN  IF Len(chunkText) = 0
             THEN chunkLoop(text, tokens, start + maxTokensPerChunk,
                            byteCursor, acc)
             ELSE LET cur == alignCursor(text, byteCursor, chunkText)
                  IN  IF cur = -1 THEN [err |-> TRUE, chunks |-> <<>>]
                      ELSE LET endPos == cur + Len(chunkText)
                           IN  chunkLoop(text, tokens,
                                   start + maxTokensPerChunk,
                                   advanceCursor(endPos),
                                   Append(acc,
                                       tokenChunk(text, cur, endPos,
                                                  Len(chunkTokens))))

\* tokenChunker.chunk, given the tokens Encode returned for text.
chunk(text, tokens) ==
    IF Len(tokens) = 0 THEN [err |-> FALSE, chunks |-> <<>>]
    ELSE chunkLoop(text, tokens, 0, 0, <<>>)

\* ---------------------------------------------------------- chunker harness
RECURSIVE TextsOfLen(_)
TextsOfLen(n) ==
    IF n = 0 THEN {<<>>}
    ELSE { Append(t, b) : t \in TextsOfLen(n - 1), b \in Bytes }

Texts == UNION { TextsOfLen(n) : n \in 0..MaxTextLen }

NoResult == [err |-> FALSE, chunks |-> <<>>]

ChunkInit ==
    /\ cpc = "idle"
    /\ ctext = <<>>
    /\ ctokens = <<>>
    /\ cres = NoResult

\* One call of chunk on some text, tokenized some way.
ChunkCall ==
    /\ cpc = "idle"
    /\ \E text \in Texts :
         \E tokens \in Encode(text) :
            /\ ctext' = text
            /\ ctokens' = tokens
            /\ cres' = chunk(text, tokens)
    /\ cpc' = "done"
    /\ UNCHANGED <<runVars, pipeVars, unitVars>>

ChunkNext == ChunkCall

\* -------------------------------------------------------------- run manager
\* Go strings are sequences of one-character strings.
Str0 == <<>>
RECURSIVE Join(_, _)
\* strings.Join(parts, sep)
Join(parts, sep) ==
    IF parts = <<>> THEN <<>>
    ELSE IF Len(parts) = 1 THEN parts[1]
    ELSE parts[1] \o sep \o Join(Tail(parts), sep)

\* Instants are 1, 2, ...; 0 is the zero time.Time. Two instants make a day.
ZeroTime == 0
IsZero(t) == t = ZeroTime
\* t.Format(time.RFC3339Nano): one text per instant.
FormatRFC3339Nano(t) == <<"T", ToString(t)>>
\* t.Format("20060102"): the day of the instant.
FormatDate(t) == <<"D", ToString((t + 1) \div 2)>>

\* blake3.Sum256(input)[:4] as hex, taken as collision-free: one digest per
\* input.
Sum4Hex(input) == <<"#">> \o input

\* Mutant: the step is left out of the hashed input.
GenerateRunIDNoStep(workspaceID, step, started, now) ==
    LET t == IF IsZero(started) THEN now ELSE started
    IN  <<"RUN", "-">> \o FormatDate(t) \o <<"-">>
          \o Sum4Hex(Join(<<workspaceID, FormatRFC3339Nano(t)>>, <<"|">>))

\* GenerateRunID(workspaceID, step, started), reading the clock (now) when
\* started is the zero time.
GenerateRunID(workspaceID, step, started, now) ==
    LET t == IF IsZero(started) THEN now ELSE started
    IN  <<"RUN", "-">> \o FormatDate(t) \o <<"-">>
          \o Sum4Hex(Join(<<workspaceID, step, FormatRFC3339Nano(t)>>,
                           <<"|">>))

\* Mutant: a caller-supplied run id is ignored.
pickRunIDAlwaysGenerated(runID, workspaceID, step, started, now) ==
    GenerateRunID(workspaceID, step, started, now)

\* The run id New settles on.
pickRunID(runID, workspaceID, step, started, now) ==
    IF runID = Str0 THEN GenerateRunID(workspaceID, step, started, now)
    ELSE runID

NoRun == [RunID |-> Str0, WorkspaceID |-> Str0, WorkspaceRoot |-> Str0,
          Step |-> Str0, Started |-> ZeroTime, ArtifactDir |-> Str0,
          artifacts |-> <<>>]

\* filepath.Join(artifactRoot, runID): the artifact root is fixed, so the
\* directory is named by the run id.
artifactDirOf(runID) == <<"/", "A", "/">> \o runID

\* runctx.New: [err, run]; mkdirOK is whether os.MkdirAll succeeds.
RunNew(runID, workspaceID, workspaceRoot, step, started, now, mkdirOK) ==
    LET st == IF IsZero(started) THEN now ELSE started
        id == pickRunID(runID, workspaceID, step, st, now)
    IN  IF step = Str0 THEN [err |-> "step is required", run |-> NoRun]
        ELSE IF ~mkdirOK THEN [err |-> "create artifact dir", run |-> NoRun]
        ELSE [err |-> "",
              run |-> [RunID |-> id, WorkspaceID |-> workspaceID,
                       WorkspaceRoot |-> workspaceRoot, Step |-> step,
                       Started |-> st, ArtifactDir |-> artifactDirOf(id),
                       artifacts |-> <<>>]]

\* The step names, a text of one piece each.
StepScan == <<"index.scan">>
StepEmbed == <<"index.embed">>
StepAll == <<"index.all">>
Steps == {StepScan, StepEmbed, StepAll}

\* ------------------------------------------------------ run manager harness
HarnessWsIds == {<<"w">>, <<"v">>}
HarnessRunIds == {Str0, <<"r">>}

NoCall == [made |-> FALSE, at |-> ZeroTime, runID |-> Str0, ws |-> Str0,
           step |-> Str0, started |-> ZeroTime, err |-> "", run |-> NoRun]

RunInit ==
    /\ rclock = 1
    /\ rprev = NoCall
    /\ rlast = NoCall

\* The wall clock moves on.
RunTick ==
    /\ rclock < MaxClock
    /\ rclock' = rclock + 1
    /\ UNCHANGED <<rprev, rlast>>
    /\ UNCHANGED <<chunkVars, pipeVars, unitVars>>

\* One call of New; started is the zero time, the current instant or an
\* earlier one.
RunNewCall ==
    /\ \E runID \in HarnessRunIds, ws \in HarnessWsIds,
          step \in Steps \cup {Str0}, started \in 0..rclock,
          mkdirOK \in BOOLEAN :
         LET res == RunNew(runID, ws, <<"/", "w">>, step, started, rclock,
                           mkdirOK)
         IN  rlast' = [made |-> TRUE, at |-> rclock, runID |-> runID,
                       ws |-> ws, step |-> step,
                       started |-> IF IsZero(started) THEN rclock
                                   ELSE started,
                       err |-> res.err, run |-> res.run]
    /\ rprev' = rlast
    /\ UNCHANGED rclock
    /\ UNCHANGED <<chunkVars, pipeVars, unitVars>>

RunNext == RunTick \/ RunNewCall

\* ------------------------------------------------------------ identifiers
RECURSIVE TrimLeft(_)
TrimLeft(s) == IF s # <<>> /\ Head(s) = " " THEN TrimLeft(Tail(s)) ELSE s

RECURSIVE TrimRight(_)
TrimRight(s) ==
    IF s # <<>> /\ s[Len(s)] = " " THEN TrimRight(SubSeq(s, 1, Len(s) - 1))
    ELSE s

\* strings.TrimSpace
TrimSpace(s) == TrimRight(TrimLeft(s))

LowerChar(c) ==
    CASE c = "G" -> "g" [] c = "I" -> "i" [] c = "T" -> "t"
      [] c = "M" -> "m" [] c = "S" -> "s" [] c = "W" -> "w"
      [] OTHER -> c

\* strings.ToLower
ToLower(s) == [i \in 1..Len(s) |-> LowerChar(s[i])]

\* hex of a blake3 digest (whole, or its first 10 bytes), taken as
\* collision-free: one digest per input.
SumHex(input) == <<"#">> \o input

\* Mutant: the parts are hashed as given, without lowercasing.
hexIDKeepsCase(prefix, parts) ==
    prefix \o <<"-">>
      \o SumHex(Join([i \in 1..Len(parts) |-> TrimSpace(parts[i])], <<"|">>))

\* hexID(prefix, parts...)
hexID(prefix, parts) ==
    prefix \o <<"-">>
      \o SumHex(Join([i \in 1..Len(parts) |-> ToLower(TrimSpace(parts[i]))],
                     <<"|">>))

dirID(workspaceID, relpath) == hexID(<<"dir">>, <<workspaceID, relpath>>)

\* hashString / hashFile / hashBytes
hashString(v) == SumHex(v)
hashFile(content) == SumHex(content)
hashBytes(b) == SumHex(b)

RECURSIVE LastIndexOf(_, _)
\* strings.LastIndex for one character, 1-based; 0 when absent.
LastIndexOf(s, c) ==
    IF s = <<>> THEN 0
    ELSE IF s[Len(s)] = c THEN Len(s)
    ELSE LastIndexOf(SubSeq(s, 1, Len(s) - 1), c)

\* The last element of a slash path.
BaseName(path) == SubSeq(path, LastIndexOf(path, "/") + 1, Len(path))

\* parentDirRel(rel): the relpath of the directory that holds rel, "" for
\* an entry of the root.
parentDirRel(rel) ==
    IF rel = Str0 THEN Str0
    ELSE LET k == LastIndexOf(rel, "/")
         IN  IF k = 0 THEN Str0          \* filepath.Dir gives "."
             ELSE IF k = 1 THEN Str0     \* filepath.Dir gives "/"
             ELSE SubSeq(rel, 1, k - 1)

\* normalizeRelPath(root, path) for a path WalkDir hands out: root itself or
\* root + "/" + rel.
normalizeRelPath(root, path) ==
    IF path = root THEN Str0
    ELSE SubSeq(path, Len(root) + 2, Len(path))

\* shouldSkipDir(name)
shouldSkipDir(name) ==
    ToLower(name) \in { <<".", "g", "i", "t">>, <<".", "h", "g">>,
                        <<".", "s", "v", "n">>,
                        <<"n", "o", "d", "e", "_", "m", "o", "d", "u", "l",
                          "e", "s">>,
                        <<".", "i", "d", "e", "a">>,
                        <<".", "v", "s", "c", "o", "d", "e">> }

\* detectLanguage(path): by the extension of the last path element.
detectLanguage(path) ==
    LET base == BaseName(path)
        k == LastIndexOf(base, ".")
        ext == IF k = 0 THEN Str0 ELSE ToLower(SubSeq(base, k, Len(base)))
    IN  IF ext = Str0 THEN <<"t", "e", "x", "t">>
        ELSE IF ext = <<".", "g", "o">> THEN <<"g", "o">>
        ELSE IF ext = <<".", "m", "d">>
             THEN <<"m", "a", "r", "k", "d", "o", "w", "n">>
        ELSE Tail(ext)

\* ---------------------------------------------------------- identifier calls
IdChars == {" ", "W", "w"}

RECURSIVE StringsOfLen(_, _)
\* The strings of n characters over an alphabet.
StringsOfLen(alphabet, n) ==
    IF n = 0 THEN {<<>>}
    ELSE {<<c>> \o t : c \in alphabet, t \in StringsOfLen(alphabet, n - 1)}

IdStrings == UNION {StringsOfLen(IdChars, n) : n \in 0..MaxIdLen}
IdPartLists == UNION {[1..n -> IdStrings] : n \in 1..MaxParts}
IdTags == {<<"file">>, <<"dir">>}

NoIdCalls == [made |-> FALSE, tag |-> Str0, a |-> <<>>, b |-> <<>>,
              idA |-> Str0, idB |-> Str0]

IdInit == ires = NoIdCalls

\* hexID is called on two part lists with one tag.
IdCall ==
    /\ ~ires.made
    /\ \E tag \in IdTags, a \in IdPartLists, b \in IdPartLists :
         ires' = [made |-> TRUE, tag |-> tag, a |-> a, b |-> b,
                  idA |-> hexID(tag, a), idB |-> hexID(tag, b)]
    /\ UNCHANGED <<chunkVars, runVars, pipeVars, sideVars, artVars, execVars, searchVars>>

IdNext == IdCall

\* -------------------------------------------------------------- file system
\* The workspace root that exists as a directory, a path that is a regular
\* file, and a path that does not exist.
RootDir == <<"/", "w">>
RootFile == <<"/", "f">>
RootMissing == <<"/", "x">>
\* Two more directories a request may name: one that holds no file worth
\* embedding, and the directory .GIT of the workspace /w.
RootBare == <<"/", "e">>
RootGit == <<"/", "w", "/", ".", "G", "I", "T">>
RootCase == <<"/", "c">>

\* os.Stat(root): "dir", "file" or "missing".
statKind(root) ==
    IF root \in {RootDir, RootBare, RootGit} THEN "dir"
    ELSE IF root = RootFile THEN "file"
    ELSE "missing"

\* One entry of the workspace tree: its path below the root, its kind
\* ("dir", "file", or "other" for what is not a regular file), its size,
\* modification time and bytes.
Entry(rel, kind, size, mtime, content) ==
    [rel |-> rel, kind |-> kind, size |-> size, mtime |-> mtime,
     content |-> content]

\* The workspace, in the lexical order filepath.WalkDir visits it:
\*   /w  /w/.GIT  /w/.GIT/c  /w/a.md  /w/s  /w/s/m.go
Tree ==
    << Entry(Str0, "dir", 0, 1, <<>>),
       Entry(<<".", "G", "I", "T">>, "dir", 0, 1, <<>>),
       Entry(<<".", "G", "I", "T", "/", "c">>, "file", 1, 1, <<"a">>),
       Entry(<<"a", ".", "m", "d">>, "file", 2, 1, <<"a", "b">>),
       Entry(<<"s">>, "dir", 0, 2, <<>>),
       Entry(<<"s", "/", "m", ".", "g", "o">>, "file", 3, 2,
             <<"a", "b", "a">>) >>

\* The absolute path of an entry.
PathOf(root, e) == IF e.rel = Str0 THEN root ELSE root \o <<"/">> \o e.rel

\* Is the entry below the directory with relpath d?
Below(e, d) ==
    /\ Len(e.rel) > Len(d)
    /\ IF d = Str0 THEN TRUE
       ELSE SubSeq(e.rel, 1, Len(d) + 1) = d \o <<"/">>

\* The directory /e, in walk order: a file above the size limit, a file
\* with a NUL byte, an entry that is no regular file, an empty file.
BareTree ==
    << Entry(Str0, "dir", 0, 1, <<>>),
       Entry(<<"h">>, "file", maxEmbedFileBytes + 1, 1, <<"a">>),
       Entry(<<"n">>, "file", 2, 1, <<"00", "a">>),
       Entry(<<"o">>, "other", 0, 1, <<>>),
       Entry(<<"z">>, "file", 0, 1, <<>>) >>

\* The directory /w/.GIT taken as a root of its own.
GitTree ==
    << Entry(Str0, "dir", 0, 1, <<>>),
       Entry(<<"c">>, "file", 1, 1, <<"a">>) >>

\* The directory /c of a case-sensitive file system, in walk order: two
\* files whose names differ in letter case only.
CaseTree ==
    << Entry(Str0, "dir", 0, 1, <<>>),
       Entry(<<"M">>, "file", 1, 1, <<"a">>),
       Entry(<<"m">>, "file", 1, 2, <<"b">>) >>

\* What a walk from root visits.
TreeOf(root) ==
    IF root = RootBare THEN BareTree
    ELSE IF root = RootGit THEN GitTree
    ELSE IF root = RootCase THEN CaseTree
    ELSE Tree

RECURSIVE NextAfterSkip(_, _, _)
\* The position WalkDir goes to after filepath.SkipDir at the directory at
\* position i of tree t: the first later entry that is not below it.
NextAfterSkip(t, i, j) ==
    IF j > Len(t) THEN j
    ELSE IF Below(t[j], t[i].rel) THEN NextAfterSkip(t, i, j + 1)
    ELSE j

\* ---------------------------------------------------------------- the store
\* Rows: a function from <<table, id>> to the row's fields. Edges: a set of
\* [from, rel, to] with from and to being <<table, id>>.
Key(table, id) == <<table, id>>

\* upsert(table, id, fields): create the row or replace it whole.
StoreUpsert(tbl, table, id, fields) ==
    [k \in (DOMAIN tbl) \cup {Key(table, id)} |->
        IF k = Key(table, id) THEN fields ELSE tbl[k]]

\* merge(table, id, partial): update the given fields, keep the others.
StoreMerge(tbl, table, id, partial) ==
    [k \in (DOMAIN tbl) \cup {Key(table, id)} |->
        IF k = Key(table, id)
        THEN IF k \in DOMAIN tbl THEN partial @@ tbl[k] ELSE partial
        ELSE tbl[k]]

\* relate(from, edge, to): the edge exists afterwards, once.
StoreRelate(es, inTable, inID, relation, outTable, outID) ==
    es \cup {[from |-> Key(inTable, inID), rel |-> relation,
                 to |-> Key(outTable, outID)]}

\* -------------------------------------------------------------- coordinator
NilReport == [nil |-> TRUE, RunID |-> Str0, Step |-> Str0, Started |-> ZeroTime,
              Finished |-> ZeroTime, Acceptance |-> "", ArtifactPaths |-> <<>>,
              Risks |-> <<>>]

NoRequest == [WorkspaceRoot |-> Str0, WorkspaceID |-> Str0, RunID |-> Str0]

NoStore == [rows |-> <<>>, edges |-> {}, adirs |-> {}]
NoIssued == [keys |-> {}, edges |-> {}]
NoScan == [done |-> FALSE, ws |-> Str0, root |-> Str0, issued |-> NoIssued]
NoSnapshot == [set |-> FALSE, rows |-> <<>>, edges |-> {}]
NoEmbedCall == [made |-> FALSE, files |-> <<>>, reply |-> "", vectors |-> <<>>,
                calls |-> <<>>]

\* The requests a caller may send.
RequestRoots == {Str0, <<" ">>, RootDir, RootBare, RootGit, RootFile,
                 RootMissing}
RequestWsIds == {Str0, <<" ">>, <<"w">>}
RequestRunIds == {Str0, <<"r">>}
Requests == [WorkspaceRoot : RequestRoots, WorkspaceID : RequestWsIds,
             RunID : RequestRunIds]

\* Mutant: the workspace id is not trimmed before it is tested.
validateWorkspaceRequestNoTrim(r) ==
    IF TrimSpace(r.WorkspaceRoot) = Str0 THEN "workspaceRoot is required"
    ELSE IF r.WorkspaceID = Str0 THEN "workspaceId is required"
    ELSE IF statKind(r.WorkspaceRoot) = "missing" THEN "workspace root access"
    ELSE IF statKind(r.WorkspaceRoot) # "dir"
         THEN "workspace root is not a directory"
    ELSE ""

\* validateWorkspaceRequest(req): the error text, "" for nil.
validateWorkspaceRequest(r) ==
    IF TrimSpace(r.WorkspaceRoot) = Str0 THEN "workspaceRoot is required"
    ELSE IF TrimSpace(r.WorkspaceID) = Str0 THEN "workspaceId is required"
    ELSE IF statKind(r.WorkspaceRoot) = "missing" THEN "workspace root access"
    ELSE IF statKind(r.WorkspaceRoot) # "dir"
         THEN "workspace root is not a directory"
    ELSE ""

StepOf(o) ==
    IF o = "scan" THEN StepScan ELSE IF o = "embed" THEN StepEmbed ELSE StepAll

Ev(stage, what) == [stage |-> stage, what |-> what]

\* The event of writing an artifact file, with the store keys of the records
\* the file lists.
EvWrite(stage, what, lists) ==
    [stage |-> stage, what |-> what, lists |-> lists]

\* The locals of an invocation, as they are before a stage sets them.
ResetLocals ==
    /\ walkPos' = 1
    /\ dirs' = <<>>
    /\ files' = <<>>
    /\ ops' = <<>>
    /\ artifacts' = <<>>
    /\ chunks' = <<>>
    /\ batchI' = 0

PipeInit ==
    /\ clock = 1
    /\ nruns = 0
    /\ rows = <<>>
    /\ edges = {}
    /\ adirs = {}
    /\ afiles = {}
    /\ pc = "idle"
    /\ op = "none"
    /\ req = NoRequest
    /\ cancelled = FALSE
    /\ run = NoRun
    /\ report = NilReport
    /\ retErr = ""
    /\ walkPos = 1
    /\ dirs = <<>>
    /\ files = <<>>
    /\ ops = <<>>
    /\ artifacts = <<>>
    /\ scanRes = <<>>
    /\ chunks = <<>>
    /\ batchI = 0
    /\ trace = <<>>
    /\ hstart = NoStore
    /\ hissued = NoIssued
    /\ hscanEnd = NoSnapshot
    /\ hprev = NoScan
    /\ hcall = NoEmbedCall

\* Scan / Embed / All up to the call of the first stage: validate, allocate
\* the Run, create the report.
Begin(o) ==
    /\ pc \in {"idle", "returned"}
    /\ nruns < MaxRuns
    /\ nruns' = nruns + 1
    /\ clock' = clock + 1
    /\ op' = o
    /\ cancelled' = FALSE
    /\ hstart' = [rows |-> rows, edges |-> edges, adirs |-> adirs]
    /\ hissued' = NoIssued
    /\ hscanEnd' = NoSnapshot
    /\ hprev' = IF hscanEnd.set
                THEN [done |-> TRUE, ws |-> run.WorkspaceID,
                      root |-> run.WorkspaceRoot, issued |-> hissued]
                ELSE IF \E i \in 1..Len(trace) : trace[i].stage = "scan"
                THEN NoScan
                ELSE hprev
    /\ hcall' = NoEmbedCall
    /\ scanRes' = <<>>
    /\ ResetLocals
    /\ UNCHANGED <<rows, edges, afiles>>
    /\ \E r \in Requests, mkdirOK \in BOOLEAN :
         /\ req' = r
         /\ LET verr == validateWorkspaceRequest(r)
                new == RunNew(r.RunID, r.WorkspaceID, r.WorkspaceRoot,
                              StepOf(o), clock', clock', mkdirOK)
            IN  IF verr # ""
                THEN /\ retErr' = verr
                     /\ report' = NilReport
                     /\ run' = NoRun
                     /\ trace' = <<>>
                     /\ adirs' = adirs
                     /\ pc' = "returned"
                ELSE IF new.err # ""
                THEN /\ retErr' = new.err
                     /\ report' = NilReport
                     /\ run' = NoRun
                     /\ trace' = <<>>
                     /\ adirs' = adirs
                     /\ pc' = "returned"
                ELSE /\ retErr' = ""
                     /\ run' = new.run
                     /\ report' = [NilReport EXCEPT !.nil = FALSE,
                                       !.RunID = new.run.RunID,
                                       !.Step = StepOf(o),
                                       !.Started = new.run.Started]
                     /\ trace' = <<Ev("run", "mkdir")>>
                     /\ adirs' = adirs \cup {new.run.ArtifactDir}
                     /\ pc' = IF o = "embed" THEN "embed.walk"
                              ELSE "scan.merge"
    /\ UNCHANGED <<chunkVars, runVars, unitVars>>

BeginScan == Begin("scan")
BeginEmbed == Begin("embed")
BeginAll == Begin("all")

\* The context of the invocation is cancelled while a tree walk runs.
Cancel ==
    /\ pc \in {"scan.walk", "embed.walk"}
    /\ ~cancelled
    /\ cancelled' = TRUE
    /\ trace' = Append(trace, Ev("ctx", "cancel"))
    /\ UNCHANGED <<clock, nruns, rows, edges, adirs, afiles, pc, op, req, run,
                   report, retErr, walkPos, dirs, files, ops, artifacts,
                   scanRes, chunks, batchI, hstart, hissued, hscanEnd,
                   hprev,
                   hcall>>
    /\ UNCHANGED <<chunkVars, runVars, unitVars>>

Risk(prefix, text) == [prefix |-> prefix, text |-> text]

\* What performScan returns as Artifacts next to an error: an empty
\* scanResult, whatever was written before.
scanResultOnError(written) == <<>>

\* What performEmbedding returns as Artifacts next to an error.
embedResultOnError(written) == <<>>

\* Mutant: All leaves the scan's artifacts out when the embedding failed.
allPathsOnEmbedFailDropsScan(scanArtifacts, embedArtifacts) == embedArtifacts

\* All: the artifact paths reported when the embedding failed.
allPathsOnEmbedFail(scanArtifacts, embedArtifacts) ==
    scanArtifacts \o embedArtifacts

\* Mutant: Scan and Embed return the report without marking it failed.
failedAcceptanceUnset(o) == ""

\* The acceptance a failed stage leaves in the report.
failedAcceptance(o) == "fail"

\* Mutant: All goes on to the embedding although the scan failed.
allAfterScanFailureEmbeds == "embed.walk"

\* All: where control goes when performScan returned an error.
allAfterScanFailure == "returned"

\* A stage failed with err: the coordinator marks the report and returns.
StageFails(stage, err) ==
    /\ retErr' = err
    /\ pc' = IF op = "all" /\ stage = "scan" THEN allAfterScanFailure
             ELSE "returned"
    /\ report' =
         IF op = "all"
         THEN [report EXCEPT
                 !.Acceptance = failedAcceptance(op),
                 !.Risks = Append(@, Risk(IF stage = "scan"
                                          THEN "scan failed: "
                                          ELSE "embedding failed: ", err)),
                 !.ArtifactPaths =
                     @ \o (IF stage = "scan"
                           THEN scanResultOnError(artifacts)
                           ELSE allPathsOnEmbedFail(scanRes,
                                    embedResultOnError(<<>>)))]
         ELSE [report EXCEPT
                 !.Acceptance = failedAcceptance(op),
                 !.Risks = Append(@, Risk("", err))]
    /\ ResetLocals

\* --------------------------------------------------------------- scan stage
\* Mutant: the file id also hashes the run id.
fileIDPerRun(workspaceID, relpath) ==
    hexID(<<"file">>, <<workspaceID, relpath, run.RunID>>)

fileID(workspaceID, relpath) == hexID(<<"file">>, <<workspaceID, relpath>>)

UpsertOp(table, id, fields, err) ==
    [kind |-> "upsert", table |-> table, id |-> id, fields |-> fields,
     from |-> <<>>, rel |-> "", to |-> <<>>, err |-> err]

RelateOp(inTable, inID, relation, outTable, outID, err) ==
    [kind |-> "relate", table |-> "", id |-> <<>>, fields |-> <<>>,
     from |-> Key(inTable, inID), rel |-> relation,
     to |-> Key(outTable, outID), err |-> err]

\* Mutant: a directory is never related to its parent.
dirOpsNoParent(wsID, dir) ==
    LET dirRecID == dirID(wsID, dir.RelPath)
    IN  << UpsertOp("directory", dirRecID,
                    [ws |-> Key("workspace", wsID), relpath |-> dir.RelPath,
                     sha |-> dir.Hash],
                    "upsert directory"),
           RelateOp("workspace", wsID, "ws_contains_dir", "directory",
                    dirRecID, "relate workspace->dir") >>

\* performScan: the store calls for one directory.
dirOps(wsID, dir) ==
    LET dirRecID == dirID(wsID, dir.RelPath)
        parent == parentDirRel(dir.RelPath)
    IN  << UpsertOp("directory", dirRecID,
                    [ws |-> Key("workspace", wsID), relpath |-> dir.RelPath,
                     sha |-> dir.Hash],
                    "upsert directory"),
           RelateOp("workspace", wsID, "ws_contains_dir", "directory",
                    dirRecID, "relate workspace->dir") >>
        \o (IF parent # Str0 \/ dir.RelPath # Str0
            THEN << RelateOp("directory", dirID(wsID, parent),
                             "dir_contains_dir", "directory", dirRecID,
                             "relate parent->dir") >>
            ELSE <<>>)

\* performScan: the store calls for one file.
fileOps(wsID, file) ==
    LET fileRecID == fileID(wsID, file.RelPath)
    IN  << UpsertOp("file", fileRecID,
                    [ws |-> Key("workspace", wsID), relpath |-> file.RelPath,
                     lang |-> file.Lang, size |-> file.Size,
                     mtime |-> file.MTime, sha |-> file.Hash],
                    "upsert file"),
           RelateOp("directory", dirID(wsID, parentDirRel(file.RelPath)),
                    "dir_contains_file", "file", fileRecID,
                    "relate dir->file") >>

\* Mutant: the files are not stored.
scanOpsDirsOnly(wsID, ds, fs) ==
    Concat([i \in 1..Len(ds) |-> dirOps(wsID, ds[i])])

\* performScan: all store calls after the walk, directories first.
scanOps(wsID, ds, fs) ==
    Concat([i \in 1..Len(ds) |-> dirOps(wsID, ds[i])])
      \o Concat([i \in 1..Len(fs) |-> fileOps(wsID, fs[i])])

\* The store after a call that succeeded.
RowsAfter(o) ==
    IF o.kind = "upsert" THEN StoreUpsert(rows, o.table, o.id, o.fields)
    ELSE rows
EdgesAfter(o) ==
    IF o.kind = "relate"
    THEN StoreRelate(edges, o.from[1], o.from[2], o.rel, o.to[1], o.to[2])
    ELSE edges

\* Run.AddArtifact(path)
AddArtifact(r, path) ==
    IF TrimSpace(path) = Str0 THEN r
    ELSE [r EXCEPT !.artifacts = Append(@, path)]

ArtifactPath(dir, name) == dir \o <<"/", name>>

\* performScan: the workspace row is merged.
ScanMerge ==
    /\ pc = "scan.merge"
    /\ trace' = Append(trace, Ev("scan", "merge"))
    /\ \E ok \in BOOLEAN :
         IF ok
         THEN /\ rows' = StoreMerge(rows, "workspace", run.WorkspaceID,
                             [path |-> run.WorkspaceRoot, vcs |-> Str0,
                              rev |-> Str0, content_sha |-> Str0])
              /\ pc' = "scan.walk"
              /\ UNCHANGED <<report, retErr, walkPos, dirs, files, ops,
                             artifacts, chunks, batchI>>
         ELSE /\ StageFails("scan", "surreal merge workspace")
              /\ UNCHANGED rows
    /\ UNCHANGED <<clock, nruns, edges, adirs, afiles, op, req, cancelled,
                   run, scanRes, hstart, hissued, hscanEnd, hprev,
                   hcall>>
    /\ UNCHANGED <<chunkVars, runVars, unitVars>>

\* Mutant: the callback does not look at the context.
scanVisitErrNoCtx(fault, ctxDone, skip, kind) ==
    IF fault = "walk" THEN "walk error"
    ELSE IF skip THEN ""
    ELSE IF fault = "info" THEN "entry info"
    ELSE IF kind = "file" /\ fault = "hash" THEN "hash file"
    ELSE ""

\* performScan: the error the WalkDir callback returns for an entry, "" for
\* none: the walk's own error first, then the context, then (unless the
\* directory is skipped) d.Info() and hashFile.
scanVisitErr(fault, ctxDone, skip, kind) ==
    IF fault = "walk" THEN "walk error"
    ELSE IF ctxDone THEN "context canceled"
    ELSE IF skip THEN ""
    ELSE IF fault = "info" THEN "entry info"
    ELSE IF kind = "file" /\ fault = "hash" THEN "hash file"
    ELSE ""

\* performScan, WalkDir callback: is the entry a directory that is skipped
\* with all below it?
visitSkips(root, e) ==
    e.kind = "dir" /\ shouldSkipDir(BaseName(PathOf(root, e)))

\* The position WalkDir goes to after the entry at pos.
visitNext(root, pos) ==
    IF visitSkips(root, TreeOf(root)[pos])
    THEN NextAfterSkip(TreeOf(root), pos, pos + 1)
    ELSE pos + 1

\* performScan, WalkDir callback: dirs after the entry.
visitDirs(root, e, ds) ==
    IF ~visitSkips(root, e) /\ e.kind = "dir"
    THEN Append(ds, [RelPath |-> normalizeRelPath(root, PathOf(root, e)),
                     Hash |-> hashString(PathOf(root, e)),
                     ModTime |-> e.mtime])
    ELSE ds

\* performScan, WalkDir callback: files after the entry.
visitFiles(root, e, fs) ==
    IF e.kind = "file"
    THEN Append(fs, [RelPath |-> normalizeRelPath(root, PathOf(root, e)),
                     Size |-> e.size, MTime |-> e.mtime,
                     Hash |-> hashFile(e.content),
                     Lang |-> detectLanguage(PathOf(root, e))])
    ELSE fs

\* performScan: the WalkDir callback on the entry at walkPos.
ScanVisit ==
    /\ pc = "scan.walk"
    /\ walkPos <= Len(TreeOf(run.WorkspaceRoot))
    /\ trace' = Append(trace, Ev("scan", "walk"))
    /\ \E fault \in {"none", "walk", "info", "hash"} :
         LET e == TreeOf(run.WorkspaceRoot)[walkPos]
             skip == visitSkips(run.WorkspaceRoot, e)
             next == visitNext(run.WorkspaceRoot, walkPos)
             ds == visitDirs(run.WorkspaceRoot, e, dirs)
             fs == visitFiles(run.WorkspaceRoot, e, files)
             err == scanVisitErr(fault, cancelled, skip, e.kind)
             todo == scanOps(run.WorkspaceID, ds, fs)
         IN  IF err # ""
             THEN StageFails("scan", err)
             ELSE /\ walkPos' = next
                  /\ dirs' = ds
                  /\ files' = fs
                  /\ ops' = IF next > Len(TreeOf(run.WorkspaceRoot)) THEN todo
                            ELSE ops
                  /\ pc' = IF next <= Len(TreeOf(run.WorkspaceRoot))
                           THEN "scan.walk"
                           ELSE IF todo = <<>> THEN "scan.wfiles"
                           ELSE "scan.store"
                  /\ UNCHANGED <<report, retErr, artifacts, chunks, batchI>>
    /\ UNCHANGED <<clock, nruns, rows, edges, adirs, afiles, op, req,
                   cancelled, run, scanRes, hstart, hissued, hscanEnd, hprev,
                   hcall>>
    /\ UNCHANGED <<chunkVars, runVars, unitVars>>

\* performScan: the next upsert or relate of the scan.
ScanStoreStep ==
    /\ pc = "scan.store"
    /\ ops # <<>>
    /\ trace' = Append(trace, Ev("scan", Head(ops).kind))
    /\ \E ok \in BOOLEAN :
         IF ok
         THEN /\ rows' = RowsAfter(Head(ops))
              /\ edges' = EdgesAfter(Head(ops))
              /\ hissued' =
                   IF Head(ops).kind = "upsert"
                   THEN [hissued EXCEPT
                           !.keys = @ \cup {Key(Head(ops).table,
                                                Head(ops).id)}]
                   ELSE [hissued EXCEPT
                           !.edges = @ \cup {[from |-> Head(ops).from,
                                              rel |-> Head(ops).rel,
                                              to |-> Head(ops).to]}]
              /\ ops' = Tail(ops)
              /\ pc' = IF Tail(ops) = <<>> THEN "scan.wfiles"
                       ELSE "scan.store"
              /\ UNCHANGED <<report, retErr, walkPos, dirs, files, artifacts,
                             chunks, batchI>>
         ELSE /\ StageFails("scan", Head(ops).err)
              /\ UNCHANGED <<rows, edges, hissued>>
    /\ UNCHANGED <<clock, nruns, adirs, afiles, op, req, cancelled, run,
                   scanRes, hstart, hscanEnd, hprev,
                   hcall>>
    /\ UNCHANGED <<chunkVars, runVars, unitVars>>

\* performScan: files.ndjson is written and registered. A write that fails
\* may leave the file behind.
ScanWriteFiles ==
    /\ pc = "scan.wfiles"
    /\ trace' = Append(trace,
                       EvWrite("scan", "write files.ndjson",
                               {Key("file",
                                    fileID(run.WorkspaceID, files[i].RelPath)) :
                                  i \in 1..Len(files)}))
    /\ \E outcome \in {"ok", "failed", "broken"} :
         LET path == ArtifactPath(run.ArtifactDir, "files.ndjson")
         IN  /\ afiles' = IF outcome = "failed" THEN afiles
                          ELSE afiles \cup {path}
             /\ IF outcome = "ok"
                THEN /\ run' = AddArtifact(run, path)
                     /\ artifacts' = Append(artifacts, path)
                     /\ pc' = "scan.wdirs"
                     /\ UNCHANGED <<report, retErr, walkPos, dirs, files,
                                    ops, chunks, batchI>>
                ELSE /\ StageFails("scan", "write artifact")
                     /\ UNCHANGED run
    /\ UNCHANGED <<clock, nruns, rows, edges, adirs, op, req, cancelled,
                   scanRes, hstart, hissued, hscanEnd, hprev,
                   hcall>>
    /\ UNCHANGED <<chunkVars, runVars, unitVars>>

\* performScan: dirs.ndjson is written and registered, performScan returns;
\* Scan then reports pass, All goes on to the embedding.
ScanWriteDirs ==
    /\ pc = "scan.wdirs"
    /\ trace' = Append(trace,
                       EvWrite("scan", "write dirs.ndjson",
                               {Key("directory",
                                    dirID(run.WorkspaceID, dirs[i].RelPath)) :
                                  i \in 1..Len(dirs)}))
    /\ \E outcome \in {"ok", "failed", "broken"} :
         LET path == ArtifactPath(run.ArtifactDir, "dirs.ndjson")
             arts == Append(artifacts, path)
         IN  /\ afiles' = IF outcome = "failed" THEN afiles
                          ELSE afiles \cup {path}
             /\ IF outcome = "ok"
                THEN /\ run' = AddArtifact(run, path)
                     /\ scanRes' = arts
                     /\ hscanEnd' = [set |-> TRUE, rows |-> rows,
                                     edges |-> edges]
                     /\ retErr' = ""
                     /\ ResetLocals
                     /\ IF op = "scan"
                        THEN /\ report' = [report EXCEPT
                                             !.Finished = clock,
                                             !.Acceptance = "pass",
                                             !.ArtifactPaths = @ \o arts]
                             /\ pc' = "returned"
                        ELSE /\ report' = report
                             /\ pc' = "embed.walk"
                ELSE /\ StageFails("scan", "write artifact")
                     /\ UNCHANGED <<run, scanRes, hscanEnd>>
    /\ UNCHANGED <<clock, nruns, rows, edges, adirs, op, req, cancelled,
                   hstart, hissued, hprev,
                   hcall>>
    /\ UNCHANGED <<chunkVars, runVars, unitVars>>

\* -------------------------------------------------------------- embed stage
\* The embedding model of the configuration.
EmbedModel == <<"M", "-", "1">>

\* The vectors the embedding service may answer with.
VectorChoices == {<<>>, <<1>>, <<3, 5>>}

\* The tokenizer of the running indexer: one of the encodings, a token per
\* byte of the sanitized text.
encodeBytes(text) == [i \in 1..Len(Sanitize(text)) |-> <<Sanitize(text)[i]>>]

\* isBinary(content): a NUL among the first 1024 bytes.
isBinary(content) ==
    \E i \in 1..Min(Len(content), 1024) : content[i] = "00"

RECURSIVE collapseDashes(_)
\* for strings.Contains(slug, "--") { slug = ReplaceAll(slug, "--", "-") }
collapseDashes(s) ==
    IF Len(s) < 2 THEN s
    ELSE IF s[1] = "-" /\ s[2] = "-" THEN collapseDashes(Tail(s))
    ELSE <<s[1]>> \o collapseDashes(Tail(s))

RECURSIVE trimDashes(_)
\* strings.Trim(slug, "-")
trimDashes(s) ==
    IF s = <<>> THEN s
    ELSE IF s[1] = "-" THEN trimDashes(Tail(s))
    ELSE IF s[Len(s)] = "-" THEN trimDashes(SubSeq(s, 1, Len(s) - 1))
    ELSE s

\* modelIdentifier(model)
modelIdentifier(model) ==
    trimDashes(collapseDashes(
        [i \in 1..Len(model) |->
            IF ToLower(model)[i] \in {" ", "/", ":", "@", ".", "_"} THEN "-"
            ELSE ToLower(model)[i]]))

\* splitModel(model): <<family, version>>
splitModel(model) ==
    IF Index(model, <<"-">>) = -1 THEN <<modelIdentifier(model), <<"base">>>>
    ELSE <<Slice(model, 0, Index(model, <<"-">>)),
           Slice(model, Index(model, <<"-">>) + 1, Len(model))>>

\* vectorChunkID as storeEmbeddings calls it, the chunk index being a part.
vectorChunkID(workspaceID, fileRecID, granularity, index) ==
    hexID(<<"vec">>, <<workspaceID, fileRecID, granularity,
                       <<ToString(index)>>>>)

\* Mutant: the chunks carry the file's name in place of its relpath.
embedChunksOfBase(rel, segments) ==
    [i \in 1..Len(segments) |->
        [RelPath |-> BaseName(rel), Index |-> i - 1,
         Start |-> segments[i].Start,
         End |-> segments[i].End, TokenCount |-> segments[i].TokenCount,
         Text |-> segments[i].Text,
         ContentSHA |-> hashBytes(segments[i].Text),
         Size |-> Len(segments[i].Text), Vector |-> <<>>, NativeDim |-> 0]]

\* collectEmbedChunks: the embedChunks of one file's segments.
embedChunksOf(rel, segments) ==
    [i \in 1..Len(segments) |->
        [RelPath |-> rel, Index |-> i - 1, Start |-> segments[i].Start,
         End |-> segments[i].End, TokenCount |-> segments[i].TokenCount,
         Text |-> segments[i].Text,
         ContentSHA |-> hashBytes(segments[i].Text),
         Size |-> Len(segments[i].Text), Vector |-> <<>>, NativeDim |-> 0]]

RECURSIVE firstDim(_)
\* storeEmbeddings: the length of the first non-empty vector, 0 if none.
firstDim(cs) ==
    IF cs = <<>> THEN 0
    ELSE IF Len(cs[1].Vector) > 0 THEN Len(cs[1].Vector)
    ELSE firstDim(Tail(cs))

RECURSIVE SumAt(_, _, _)
\* The sum of component i over the chunks whose vector has n components.
SumAt(cs, n, i) ==
    IF cs = <<>> THEN 0
    ELSE (IF Len(cs[1].Vector) = n THEN cs[1].Vector[i] ELSE 0)
           + SumAt(Tail(cs), n, i)

\* Mutant: every chunk is counted, whatever the length of its vector.
sampleOfCountsAll(cs, n) == Len(cs)

\* The number of chunks whose vector has n components.
sampleOf(cs, n) == Cardinality({i \in 1..Len(cs) : Len(cs[i].Vector) = n})

\* The centroid: component i is the quotient SumAt / sample, kept as the
\* pair <<sum, sample>>.
centroidOf(cs, n) == [i \in 1..n |-> <<SumAt(cs, n, i), sampleOf(cs, n)>>]

ErrorOp(err) ==
    [kind |-> "error", table |-> "", id |-> <<>>, fields |-> <<>>,
     from |-> <<>>, rel |-> "", to |-> <<>>, err |-> err]

\* storeEmbeddings: the store calls for one chunk.
chunkOps(wsID, ch, now) ==
    LET fileRecID == fileID(wsID, ch.RelPath)
        vecID == vectorChunkID(wsID, fileRecID, <<"chunk">>, ch.Index)
    IN  << UpsertOp("vector_chunk", vecID,
                    [ws |-> Key("workspace", wsID),
                     file |-> Key("file", fileRecID),
                     granularity |-> "file_chunk", chunk_index |-> ch.Index,
                     start |-> ch.Start, end |-> ch.End,
                     token_count |-> ch.TokenCount,
                     content_sha |-> ch.ContentSHA,
                     model |-> Key("vector_model",
                                   modelIdentifier(EmbedModel)),
                     native_dim |-> ch.NativeDim, vector |-> ch.Vector,
                     ts |-> now],
                    "upsert vector_chunk"),
           RelateOp("file", fileRecID, "file_has_vector", "vector_chunk",
                    vecID, "relate file->vector") >>

RECURSIVE chunksOpsStoresAll(_, _, _)
\* Mutant: a chunk without vector is stored like the others.
chunksOpsStoresAll(wsID, cs, now) ==
    IF cs = <<>> THEN <<>>
    ELSE chunkOps(wsID, cs[1], now) \o chunksOpsStoresAll(wsID, Tail(cs), now)

RECURSIVE chunksOps(_, _, _)
\* storeEmbeddings: the loop over the chunks stops at a chunk without vector.
chunksOps(wsID, cs, now) ==
    IF cs = <<>> THEN <<>>
    ELSE IF Len(cs[1].Vector) = 0 THEN <<ErrorOp("missing embedding")>>
    ELSE chunkOps(wsID, cs[1], now) \o chunksOps(wsID, Tail(cs), now)

\* storeEmbeddings: the centroid row and its edge.
centroidOps(wsID, cs, nativeDim, now) ==
    IF sampleOf(cs, nativeDim) > 0
    THEN LET wsVecID == hexID(<<"wsv">>,
                              <<wsID, modelIdentifier(EmbedModel),
                                <<"centroid@file">>>>)
         IN  << UpsertOp("workspace_vector", wsVecID,
                         [ws |-> Key("workspace", wsID),
                          kind |-> "centroid@file",
                          model |-> Key("vector_model",
                                        modelIdentifier(EmbedModel)),
                          vector |-> centroidOf(cs, nativeDim),
                          sample |-> sampleOf(cs, nativeDim), ts |-> now],
                         "upsert workspace_vector"),
                RelateOp("workspace", wsID, "workspace_has_vector",
                         "workspace_vector", wsVecID,
                         "relate workspace->workspace_vector") >>
    ELSE <<>>

\* storeEmbeddings: everything it does, in order.
storeEmbeddingsOps(wsID, cs, now) ==
    LET nativeDim == firstDim(cs)
    IN  IF nativeDim = 0
        THEN <<ErrorOp("no vectors available to determine native dim")>>
        ELSE << UpsertOp("vector_model", modelIdentifier(EmbedModel),
                         [id_slug |-> modelIdentifier(EmbedModel),
                          family |-> splitModel(EmbedModel)[1],
                          version |-> splitModel(EmbedModel)[2],
                          native_dim |-> nativeDim],
                         "upsert vector_model") >>
             \o chunksOps(wsID, cs, now)
             \o centroidOps(wsID, cs, nativeDim, now)

\* collectEmbedChunks: the WalkDir callback on the entry at walkPos; after
\* the last entry performEmbedding tests that there are chunks.
EmbedVisit ==
    /\ pc = "embed.walk"
    /\ walkPos <= Len(TreeOf(run.WorkspaceRoot))
    /\ trace' = Append(trace, Ev("embed", "walk"))
    /\ \E fault \in {"none", "walk", "info", "read"} :
         LET e == TreeOf(run.WorkspaceRoot)[walkPos]
             path == PathOf(run.WorkspaceRoot, e)
             rel0 == normalizeRelPath(run.WorkspaceRoot, path)
             rel == IF rel0 = Str0 THEN BaseName(path) ELSE rel0
             skip == e.kind = "dir" /\ shouldSkipDir(BaseName(path))
             next == IF skip
                     THEN NextAfterSkip(TreeOf(run.WorkspaceRoot), walkPos,
                                        walkPos + 1)
                     ELSE walkPos + 1
             eligible == /\ e.kind = "file"
                         /\ e.size # 0
                         /\ e.size <= maxEmbedFileBytes
                         /\ ~isBinary(e.content)
             segs == chunk(e.content, encodeBytes(e.content))
             err == IF fault = "walk" THEN "walk error"
                    ELSE IF e.kind = "dir" THEN ""
                    ELSE IF cancelled THEN "context canceled"
                    ELSE IF fault = "info" THEN "entry info"
                    ELSE IF e.kind # "file" THEN ""
                    ELSE IF e.size = 0 \/ e.size > maxEmbedFileBytes THEN ""
                    ELSE IF fault = "read" THEN "read file"
                    ELSE IF isBinary(e.content) THEN ""
                    ELSE IF segs.err THEN "chunk file"
                    ELSE ""
             cs == IF eligible THEN chunks \o embedChunksOf(rel, segs.chunks)
                   ELSE chunks
         IN  IF err # ""
             THEN StageFails("embed", err)
             ELSE IF next > Len(TreeOf(run.WorkspaceRoot)) /\ cs = <<>>
             THEN StageFails("embed", "no embeddable files discovered")
             ELSE /\ walkPos' = next
                  /\ chunks' = cs
                  /\ batchI' = 0
                  /\ pc' = IF next <= Len(TreeOf(run.WorkspaceRoot))
                           THEN "embed.walk"
                           ELSE "embed.batch"
                  /\ UNCHANGED <<report, retErr, dirs, files, ops, artifacts>>
    /\ UNCHANGED <<clock, nruns, rows, edges, adirs, afiles, op, req,
                   cancelled, run, scanRes, hstart, hissued, hscanEnd, hprev,
                   hcall>>
    /\ UNCHANGED <<chunkVars, runVars, unitVars>>

\* Mutant: the vectors of a reply are attached in reverse.
populateBatchReversed(cs, i, j, vectors) ==
    [x \in 1..Len(cs) |->
        IF x > i /\ x <= j
        THEN [cs[x] EXCEPT !.Vector = vectors[j - x + 1],
                           !.NativeDim = Len(vectors[j - x + 1])]
        ELSE cs[x]]

\* populateVectors: the vectors of the reply to the batch chunks[i:j] are
\* attached, vector k to batch[k].
populateBatch(cs, i, j, vectors) ==
    [x \in 1..Len(cs) |->
        IF x > i /\ x <= j
        THEN [cs[x] EXCEPT !.Vector = vectors[x - i],
                           !.NativeDim = Len(vectors[x - i])]
        ELSE cs[x]]

RECURSIVE Str(_)
\* A sequence of characters as one string.
Str(q) == IF q = <<>> THEN "" ELSE q[1] \o Str(Tail(q))

\* Mutant: an empty vector is taken like any other.
firstEmptyVectorMissed(vectors) == 0

\* populateVectors: the position of the first empty vector of a reply, 0
\* when none is empty.
firstEmptyVector(vectors) ==
    IF \E k \in 1..Len(vectors) : Len(vectors[k]) = 0
    THEN CHOOSE k \in 1..Len(vectors) :
            /\ Len(vectors[k]) = 0
            /\ \A h \in 1..(k - 1) : Len(vectors[h]) # 0
    ELSE 0

\* populateVectors: one batch goes to the embedding service; after the last
\* batch the store calls of storeEmbeddings are readied.
EmbedBatch ==
    /\ pc = "embed.batch"
    /\ batchI < Len(chunks)
    /\ trace' = Append(trace, Ev("embed", "embed call"))
    /\ LET j == Min(batchI + embedBatchSize, Len(chunks))
           n == j - batchI
           sent == [k \in 1..n |-> chunks[batchI + k].RelPath]
       IN  \E reply \in {"error", "count", "vectors"},
              answer \in [1..n -> VectorChoices] :
             /\ hcall' = [made |-> TRUE, files |-> sent, reply |-> reply,
                          vectors |-> IF reply = "vectors" THEN answer
                                      ELSE <<>>,
                          calls |-> Append(hcall.calls,
                                      [first |-> batchI,
                                       texts |-> [k \in 1..n |->
                                                    chunks[batchI + k].Text],
                                       vectors |-> IF reply = "vectors"
                                                   THEN answer ELSE <<>>])]
             /\ IF reply = "error"
                THEN StageFails("embed", "embed http request")
                ELSE IF reply = "count"
                THEN StageFails("embed", "embed response count mismatch")
                ELSE IF firstEmptyVector(answer) # 0
                THEN StageFails("embed",
                        "embedding returned empty vector for "
                          \o Str(sent[firstEmptyVector(answer)]))
                ELSE LET cs == populateBatch(chunks, batchI, j, answer)
                     IN  /\ chunks' = cs
                         /\ batchI' = j
                         /\ ops' = IF j >= Len(chunks)
                                   THEN storeEmbeddingsOps(run.WorkspaceID,
                                                           cs, clock)
                                   ELSE ops
                         /\ pc' = IF j >= Len(chunks) THEN "embed.store"
                                  ELSE "embed.batch"
                         /\ UNCHANGED <<report, retErr, walkPos, dirs, files,
                                        artifacts>>
    /\ UNCHANGED <<clock, nruns, rows, edges, adirs, afiles, op, req,
                   cancelled, run, scanRes, hstart, hissued, hscanEnd, hprev>>
    /\ UNCHANGED <<chunkVars, runVars, unitVars>>

\* storeEmbeddings: the next step of it, an upsert, a relate or an error
\* return.
EmbedStoreStep ==
    /\ pc = "embed.store"
    /\ ops # <<>>
    /\ IF Head(ops).kind = "error"
       THEN /\ StageFails("embed", "surreal ops (embed)")
            /\ UNCHANGED <<rows, edges, trace>>
       ELSE /\ trace' = Append(trace, Ev("embed", Head(ops).kind))
            /\ \E ok \in BOOLEAN :
                 IF ok
                 THEN /\ rows' = RowsAfter(Head(ops))
                      /\ edges' = EdgesAfter(Head(ops))
                      /\ ops' = Tail(ops)
                      /\ pc' = IF Tail(ops) = <<>> THEN "embed.write"
                               ELSE "embed.store"
                      /\ UNCHANGED <<report, retErr, walkPos, dirs, files,
                                     artifacts, chunks, batchI>>
                 ELSE /\ StageFails("embed", "surreal ops (embed)")
                      /\ UNCHANGED <<rows, edges>>
    /\ UNCHANGED <<clock, nruns, adirs, afiles, op, req, cancelled, run,
                   scanRes, hstart, hissued, hscanEnd, hprev,
                   hcall>>
    /\ UNCHANGED <<chunkVars, runVars, unitVars>>

\* performEmbedding: vectors.ndjson is written and registered; Embed or All
\* reports pass.
EmbedWrite ==
    /\ pc = "embed.write"
    /\ trace' = Append(trace,
                       EvWrite("embed", "write vectors.ndjson",
                               {Key("vector_chunk",
                                    vectorChunkID(
                                       run.WorkspaceID,
                                       fileID(run.WorkspaceID,
                                              chunks[i].RelPath),
                                       <<"chunk">>, chunks[i].Index)) :
                                  i \in 1..Len(chunks)}))
    /\ \E outcome \in {"ok", "failed", "broken"} :
         LET path == ArtifactPath(run.ArtifactDir, "vectors.ndjson")
         IN  /\ afiles' = IF outcome = "failed" THEN afiles
                          ELSE afiles \cup {path}
             /\ IF outcome = "ok"
                THEN /\ run' = AddArtifact(run, path)
                     /\ retErr' = ""
                     /\ report' = [report EXCEPT
                                     !.Finished = clock,
                                     !.Acceptance = "pass",
                                     !.ArtifactPaths =
                                        @ \o (IF op = "all" THEN scanRes
                                              ELSE <<>>) \o <<path>>]
                     /\ pc' = "returned"
                     /\ ResetLocals
                ELSE /\ StageFails("embed", "write artifact")
                     /\ UNCHANGED run
    /\ UNCHANGED <<clock, nruns, rows, edges, adirs, op, req, cancelled,
                   scanRes, hstart, hissued, hscanEnd, hprev,
                   hcall>>
    /\ UNCHANGED <<chunkVars, runVars, unitVars>>

\* ------------------------------------------- storeEmbeddings on any chunks
\* The chunks collectEmbedChunks makes of the files a.md and s/m.go of /w.
walkedChunks ==
    embedChunksOf(Tree[4].rel,
                  chunk(Tree[4].content, encodeBytes(Tree[4].content)).chunks)
      \o embedChunksOf(Tree[6].rel,
                  chunk(Tree[6].content, encodeBytes(Tree[6].content)).chunks)

\* performEmbedding from its call of storeEmbeddings on, entered with chunks
\* that carry any vectors, empty ones too, as the only invocation of the
\* behaviour.
StoreEmbeddingsEntry ==
    /\ pc = "idle"
    /\ nruns = 0
    /\ nruns' = MaxRuns
    /\ clock' = clock + 1
    /\ op' = "embed"
    /\ req' = [WorkspaceRoot |-> RootDir, WorkspaceID |-> <<"w">>,
               RunID |-> Str0]
    /\ run' = RunNew(Str0, <<"w">>, RootDir, StepEmbed, clock', clock',
                     TRUE).run
    /\ report' = [NilReport EXCEPT !.nil = FALSE, !.RunID = run'.RunID,
                                   !.Step = StepEmbed,
                                   !.Started = run'.Started]
    /\ retErr' = ""
    /\ trace' = <<Ev("run", "mkdir")>>
    /\ adirs' = adirs \cup {run'.ArtifactDir}
    /\ \E vs \in [1..Len(walkedChunks) -> VectorChoices] :
         /\ chunks' = [i \in 1..Len(walkedChunks) |->
                         [walkedChunks[i] EXCEPT !.Vector = vs[i],
                                                 !.NativeDim = Len(vs[i])]]
         /\ ops' = storeEmbeddingsOps(<<"w">>, chunks', clock')
    /\ batchI' = Len(walkedChunks)
    /\ pc' = "embed.store"
    /\ hstart' = [rows |-> rows, edges |-> edges, adirs |-> adirs]
    /\ UNCHANGED <<rows, edges, afiles, cancelled, walkPos, dirs, files,
                   artifacts, scanRes, hissued, hscanEnd, hprev, hcall>>
    /\ UNCHANGED <<chunkVars, runVars, unitVars>>

\* --------------------------------------------------------- concurrent scans
\* Two invocations of Scan with different runs run performScan on one
\* workspace against one store. Each stands at "merge", "walk", "store",
\* "write", "done" or "failed"; its artifact files go to the directory of its
\* own run and are left out.
ConcProcs == {1, 2}
ConcRoots == {RootDir, RootCase}
ConcWs == <<"w">>

ConcIdle == [pc |-> "idle", walkPos |-> 1, dirs |-> <<>>, files |-> <<>>,
             ops |-> <<>>]

ConcInit ==
    /\ croot = Str0
    /\ cproc = [p \in ConcProcs |-> ConcIdle]
    /\ crows = <<>>
    /\ cedges = {}

ConcFrame ==
    UNCHANGED <<chunkVars, runVars, pipeVars, idVars, artVars, execVars,
                searchVars, ptyVars>>

\* performScan returns an error: the locals are gone, the store stays.
ConcFails(p) ==
    cproc' = [cproc EXCEPT ![p] = [ConcIdle EXCEPT !.pc = "failed"]]

\* Both invocations are started on one root.
ConcStart ==
    /\ croot = Str0
    /\ \E root \in ConcRoots : croot' = root
    /\ cproc' = [p \in ConcProcs |-> [ConcIdle EXCEPT !.pc = "merge"]]
    /\ UNCHANGED <<crows, cedges>>
    /\ ConcFrame

\* performScan: the workspace row is merged.
ConcMerge ==
    /\ \E p \in ConcProcs :
         /\ cproc[p].pc = "merge"
         /\ \E ok \in BOOLEAN :
              IF ok
              THEN /\ crows' = StoreMerge(crows, "workspace", ConcWs,
                                  [path |-> croot, vcs |-> Str0,
                                   rev |-> Str0, content_sha |-> Str0])
                   /\ cproc' = [cproc EXCEPT ![p].pc = "walk"]
              ELSE /\ ConcFails(p)
                   /\ UNCHANGED crows
    /\ UNCHANGED <<croot, cedges>>
    /\ ConcFrame

\* performScan: the WalkDir callback on the next entry; the context may be
\* cancelled by then.
ConcVisit ==
    /\ \E p \in ConcProcs :
         /\ cproc[p].pc = "walk"
         /\ \E fault \in {"none", "walk", "info", "hash"},
               ctxDone \in BOOLEAN :
              LET e == TreeOf(croot)[cproc[p].walkPos]
                  next == visitNext(croot, cproc[p].walkPos)
                  ds == visitDirs(croot, e, cproc[p].dirs)
                  fs == visitFiles(croot, e, cproc[p].files)
                  err == scanVisitErr(fault, ctxDone, visitSkips(croot, e),
                                      e.kind)
                  todo == scanOps(ConcWs, ds, fs)
              IN  IF err # ""
                  THEN ConcFails(p)
                  ELSE cproc' =
                         [cproc EXCEPT ![p] =
                            [pc |-> IF next <= Len(TreeOf(croot)) THEN "walk"
                                    ELSE IF todo = <<>> THEN "write"
                                    ELSE "store",
                             walkPos |-> next, dirs |-> ds, files |-> fs,
                             ops |-> IF next > Len(TreeOf(croot)) THEN todo
                                     ELSE <<>>]]
    /\ UNCHANGED <<croot, crows, cedges>>
    /\ ConcFrame

\* performScan: the next upsert or relate of one of the scans.
ConcStoreStep ==
    /\ \E p \in ConcProcs :
         /\ cproc[p].pc = "store"
         /\ \E ok \in BOOLEAN :
              LET o == Head(cproc[p].ops)
              IN  IF ok
                  THEN /\ crows' =
                            IF o.kind = "upsert"
                            THEN StoreUpsert(crows, o.table, o.id, o.fields)
                            ELSE crows
                       /\ cedges' =
                            IF o.kind = "relate"
                            THEN StoreRelate(cedges, o.from[1], o.from[2],
                                             o.rel, o.to[1], o.to[2])
                            ELSE cedges
                       /\ cproc' =
                            [cproc EXCEPT
                               ![p].ops = Tail(@),
                               ![p].pc = IF Tail(cproc[p].ops) = <<>>
                                         THEN "write" ELSE "store"]
                  ELSE /\ ConcFails(p)
                       /\ UNCHANGED <<crows, cedges>>
    /\ UNCHANGED croot
    /\ ConcFrame

\* performScan: the artifact files are written, or one of them is not, and
\* the scan returns.
ConcWrite ==
    /\ \E p \in ConcProcs :
         /\ cproc[p].pc = "write"
         /\ \E ok \in BOOLEAN :
              IF ok
              THEN cproc' = [cproc EXCEPT ![p] =
                                [ConcIdle EXCEPT !.pc = "done"]]
              ELSE ConcFails(p)
    /\ UNCHANGED <<croot, crows, cedges>>
    /\ ConcFrame

ConcNext ==
    \/ ConcStart \/ ConcMerge \/ ConcVisit \/ ConcStoreStep \/ ConcWrite

\* ------------------------------------------------------------- PTY sessions
\* ExecPTY is called by two callers for one session id. A ptySession is
\* known by its number in psess; 0 stands for nil.
PtyCallers == {1, 2}
PtyActions == {"open", "write", "read", "close"}

PtyIdle == [pc |-> "idle", action |-> "", force |-> FALSE, session |-> 0,
            created |-> 0, remove |-> FALSE]

\* newPTYSession: a session whose process runs. stored: storeSession was
\* called with it; cb and target: the onExit callback and the value of
\* created it read.
NewPty == [exited |-> FALSE, closed |-> FALSE, stored |-> FALSE,
           cb |-> "none", target |-> 0]

PtyInit ==
    /\ preg = 0
    /\ psess = <<>>
    /\ pcall = [c \in PtyCallers |-> PtyIdle]
    /\ premoved = {}

PtyFrame ==
    UNCHANGED <<chunkVars, runVars, pipeVars, idVars, artVars, execVars,
                searchVars, concVars>>

\* Mutant: the entry is deleted whatever session it holds.
removeSessionAny(reg, target) == 0

\* removeSession(id, target): the registry entry afterwards.
removeSession(reg, target) == IF reg # 0 /\ reg = target THEN 0 ELSE reg

\* The history after removeSession(id, target).
Removed(target) ==
    IF removeSession(preg, target) # preg
    THEN premoved \cup {<<target, preg>>}
    ELSE premoved

\* ExecPTY: entry; session := getSession(sessionID).
PtyCall ==
    /\ \E c \in PtyCallers :
         /\ pcall[c].pc = "idle"
         /\ \E action \in PtyActions, force \in BOOLEAN :
              pcall' = [pcall EXCEPT ![c] =
                          [PtyIdle EXCEPT !.pc = "switch",
                                          !.action = action,
                                          !.force = force,
                                          !.session = preg]]
    /\ UNCHANGED <<preg, psess, premoved>>
    /\ PtyFrame

\* ExecPTY, case "open": refuse when a session is there and force is not
\* set; close the session that is there; go on to start the PTY.
PtyOpen ==
    /\ \E c \in PtyCallers :
         /\ pcall[c].pc = "switch" /\ pcall[c].action = "open"
         /\ IF pcall[c].session # 0 /\ ~pcall[c].force
            THEN /\ pcall' = [pcall EXCEPT ![c] = PtyIdle]
                 /\ UNCHANGED psess
            ELSE IF pcall[c].session # 0
            THEN /\ psess' = [psess EXCEPT ![pcall[c].session].closed = TRUE]
                 /\ pcall' = [pcall EXCEPT ![c].pc = "unseat"]
            ELSE /\ pcall' = [pcall EXCEPT ![c].pc = "start"]
                 /\ UNCHANGED psess
    /\ UNCHANGED <<preg, premoved>>
    /\ PtyFrame

\* ExecPTY, case "open": after waitForExit, removeSession(sessionID,
\* session); session = nil.
PtyUnseat ==
    /\ \E c \in PtyCallers :
         /\ pcall[c].pc = "unseat"
         /\ preg' = removeSession(preg, pcall[c].session)
         /\ premoved' = Removed(pcall[c].session)
         /\ pcall' = [pcall EXCEPT ![c].pc = "start", ![c].session = 0]
    /\ UNCHANGED psess
    /\ PtyFrame

\* ExecPTY, case "open": startPlatformPTY fails, or newPTYSession.
PtyStart ==
    /\ \E c \in PtyCallers :
         /\ pcall[c].pc = "start"
         /\ Len(psess) < MaxPty
         /\ \E ok \in BOOLEAN :
              IF ok
              THEN /\ psess' = Append(psess, NewPty)
                   /\ pcall' = [pcall EXCEPT ![c].pc = "store",
                                             ![c].created = Len(psess) + 1]
              ELSE /\ pcall' = [pcall EXCEPT ![c] = PtyIdle]
                   /\ UNCHANGED psess
    /\ UNCHANGED <<preg, premoved>>
    /\ PtyFrame

\* ExecPTY, case "open": created is assigned; storeSession(sessionID,
\* created); session = created.
PtyStore ==
    /\ \E c \in PtyCallers :
         /\ pcall[c].pc = "store"
         /\ preg' = pcall[c].created
         /\ psess' = [psess EXCEPT ![pcall[c].created].stored = TRUE]
         /\ pcall' = [pcall EXCEPT ![c].pc = "tail",
                                   ![c].session = pcall[c].created]
    /\ UNCHANGED premoved
    /\ PtyFrame

\* ExecPTY, cases "write" and "read": write needs a session.
PtyWriteRead ==
    /\ \E c \in PtyCallers :
         /\ pcall[c].pc = "switch" /\ pcall[c].action \in {"write", "read"}
         /\ pcall' = IF pcall[c].action = "write" /\ pcall[c].session = 0
                     THEN [pcall EXCEPT ![c] = PtyIdle]
                     ELSE [pcall EXCEPT ![c].pc = "tail"]
    /\ UNCHANGED <<preg, psess, premoved>>
    /\ PtyFrame

\* ExecPTY, case "close": session.close(); remove = true.
PtyClose ==
    /\ \E c \in PtyCallers :
         /\ pcall[c].pc = "switch" /\ pcall[c].action = "close"
         /\ IF pcall[c].session = 0
            THEN /\ pcall' = [pcall EXCEPT ![c] = PtyIdle]
                 /\ UNCHANGED psess
            ELSE /\ psess' = [psess EXCEPT ![pcall[c].session].closed = TRUE]
                 /\ pcall' = [pcall EXCEPT ![c].pc = "tail",
                                           ![c].remove = TRUE]
    /\ UNCHANGED <<preg, premoved>>
    /\ PtyFrame

\* ExecPTY: after the switch; the session is removed when the call closed
\* it or finds it exited; return.
PtyTail ==
    /\ \E c \in PtyCallers :
         /\ pcall[c].pc = "tail"
         /\ IF /\ pcall[c].session # 0
               /\ (pcall[c].remove \/ psess[pcall[c].session].exited)
            THEN /\ preg' = removeSession(preg, pcall[c].session)
                 /\ premoved' = Removed(pcall[c].session)
            ELSE UNCHANGED <<preg, premoved>>
         /\ pcall' = [pcall EXCEPT ![c] = PtyIdle]
    /\ UNCHANGED psess
    /\ PtyFrame

\* waitLoop: the process has exited; exited and closed are set and the
\* callback reads created, which the opening call assigns without
\* synchronisation: nil or the session while it is not stored yet.
PtyExit ==
    /\ \E k \in 1..Len(psess) :
         /\ ~psess[k].exited
         /\ \E target \in (IF psess[k].stored THEN {k} ELSE {0, k}) :
              psess' = [psess EXCEPT ![k].exited = TRUE, ![k].closed = TRUE,
                                     ![k].cb = "pending",
                                     ![k].target = target]
    /\ UNCHANGED <<preg, pcall, premoved>>
    /\ PtyFrame

\* waitLoop: s.onExit(), that is removeSession(sessionID, created).
PtyOnExit ==
    /\ \E k \in 1..Len(psess) :
         /\ psess[k].cb = "pending"
         /\ preg' = removeSession(preg, psess[k].target)
         /\ premoved' = Removed(psess[k].target)
         /\ psess' = [psess EXCEPT ![k].cb = "done"]
    /\ UNCHANGED pcall
    /\ PtyFrame

PtyNext ==
    \/ PtyCall \/ PtyOpen \/ PtyUnseat \/ PtyStart \/ PtyStore
    \/ PtyWriteRead \/ PtyClose \/ PtyTail \/ PtyExit \/ PtyOnExit

\* ------------------------------------------------------- chunker properties
ChunkOK == cpc = "done" /\ ~cres.err

ChunkTexts(cs) == [i \in 1..Len(cs) |-> cs[i].Text]

\* A window whose decoded text was not at the cursor: some chunk does not
\* start where the chunk before it ended (or at 0).
Realigned(cs) ==
    \E i \in 1..Len(cs) :
        cs[i].Start # (IF i = 1 THEN 0 ELSE cs[i - 1].End)

\* C1: whenever chunk succeeds, the Text of the returned chunks, concatenated
\* in index order, is exactly the input text.
C1_Lossless == ChunkOK => Concat(ChunkTexts(cres.chunks)) = ctext

\* C1 witness: a successful call that returned several chunks of a text that
\* holds a multi-byte rune.
C1_Witness ==
    /\ ChunkOK
    /\ Len(cres.chunks) >= 2
    /\ \E i \in 1..Len(ctext) : ctext[i] = "EF"

\* C2: a non-empty list of returned chunks starts at 0, each chunk starts
\* where the one before it ends, and the last one ends at len(text).
C2_Contiguous ==
    (ChunkOK /\ Len(cres.chunks) > 0) =>
        /\ cres.chunks[1].Start = 0
        /\ \A i \in 1..(Len(cres.chunks) - 1) :
              cres.chunks[i].End = cres.chunks[i + 1].Start
        /\ cres.chunks[Len(cres.chunks)].End = Len(ctext)

\* C2 witness: a successful call on a text of full length that returned
\* several chunks.
C2_Witness == ChunkOK /\ Len(cres.chunks) >= 2 /\ Len(ctext) = MaxTextLen

\* C3: every returned chunk has between 1 and maxTokensPerChunk tokens and a
\* non-empty byte range.
C3_TokenBudget ==
    ChunkOK =>
        \A i \in 1..Len(cres.chunks) :
            /\ cres.chunks[i].TokenCount >= 1
            /\ cres.chunks[i].TokenCount <= maxTokensPerChunk
            /\ cres.chunks[i].End > cres.chunks[i].Start

\* C3 witness: the last window is shorter than the budget, the one before it
\* is full.
C3_Witness ==
    /\ ChunkOK
    /\ Len(cres.chunks) >= 2
    /\ cres.chunks[1].TokenCount = maxTokensPerChunk
    /\ cres.chunks[Len(cres.chunks)].TokenCount < maxTokensPerChunk

\* The alignment branch is taken and finds the decoded text further on, in a
\* call that then fails: reachable, so the branch is part of what is checked.
RealignThenFail ==
    /\ cpc = "done" /\ cres.err
    /\ \E w \in 1..Len(ctokens) :
          /\ w * maxTokensPerChunk <= Len(ctokens)
          /\ LET part == chunkLoop(ctext,
                              SubSeq(ctokens, 1, w * maxTokensPerChunk),
                              0, 0, <<>>)
             IN  ~part.err /\ Realigned(part.chunks)

\* The decoded texts of the token windows of a call, in order: window w
\* (from 0) holds the tokens from w * maxTokensPerChunk on, at most
\* maxTokensPerChunk of them.
WindowTexts(tokens) ==
    [w \in 1..((Len(tokens) + maxTokensPerChunk - 1) \div maxTokensPerChunk) |->
        Concat(SubSeq(tokens, (w - 1) * maxTokensPerChunk + 1,
                      Min(w * maxTokensPerChunk, Len(tokens))))]

\* The positions (from 0) at or after cursor where piece stands in text.
OccurrencesFrom(text, piece, cursor) ==
    {i \in cursor..(Len(text) - Len(piece)) :
        SubSeq(text, i + 1, i + Len(piece)) = piece}

RECURSIVE Placed(_, _, _)
\* Can every window text be found in text, each at or after the end of the
\* one before it, taking the first place every time?
Placed(text, windows, cursor) ==
    IF windows = <<>> THEN TRUE
    ELSE IF Head(windows) = <<>> THEN Placed(text, Tail(windows), cursor)
    ELSE LET occ == OccurrencesFrom(text, Head(windows), cursor)
         IN  IF occ = {} THEN FALSE
             ELSE LET i == CHOOSE x \in occ : \A y \in occ : x <= y
                  IN  Placed(text, Tail(windows), i + Len(Head(windows)))

\* The window texts that are not empty.
NonEmptyWindows(tokens) ==
    SelectSeq(WindowTexts(tokens), LAMBDA t : t # <<>>)

\* C23: chunk returns the alignment error exactly when the decoded text of
\* some window is not found in the text at or after the cursor, and then it
\* returns no chunk; when it succeeds, its chunks are the non-empty window
\* texts in order, each chunk's Text being the decoded text of its window
\* and standing in the text at the chunk's Start, at or after the end of
\* the chunk before it.
C23_AlignmentError ==
    cpc = "done" =>
        /\ cres.err <=> ~Placed(ctext, WindowTexts(ctokens), 0)
        /\ cres.err => cres.chunks = <<>>
        /\ ~cres.err =>
             /\ ChunkTexts(cres.chunks) = NonEmptyWindows(ctokens)
             /\ \A i \in 1..Len(cres.chunks) :
                  /\ cres.chunks[i].Start
                        >= (IF i = 1 THEN 0 ELSE cres.chunks[i - 1].End)
                  /\ SubSeq(ctext, cres.chunks[i].Start + 1,
                            cres.chunks[i].End) = cres.chunks[i].Text

\* A call failed on its second window: the first was placed, the decoded
\* text of the second is not in the text behind it.
C23_Witness ==
    /\ cpc = "done" /\ cres.err
    /\ Len(WindowTexts(ctokens)) >= 2
    /\ OccurrencesFrom(ctext, WindowTexts(ctokens)[1], 0) # {}
    /\ ~Placed(ctext, WindowTexts(ctokens), 0)

\* ------------------------------------------------------- run id properties
Generated(c) == c.made /\ c.err = "" /\ c.runID = Str0

\* C4: two generated run ids of the same (workspace id, step, start) are
\* equal, two of the same workspace id and start but different steps differ,
\* and a caller-supplied non-empty run id is the run's id unchanged.
C4_RunId ==
    /\ (Generated(rprev) /\ Generated(rlast)
          /\ rprev.ws = rlast.ws /\ rprev.started = rlast.started) =>
            (rprev.step = rlast.step <=> rprev.run.RunID = rlast.run.RunID)
    /\ (rlast.made /\ rlast.err = "" /\ rlast.runID # Str0) =>
            rlast.run.RunID = rlast.runID

\* C4 witness: the same triple generated twice at different instants of the
\* clock, after a run with a caller-supplied id.
C4_Witness ==
    /\ Generated(rprev) /\ Generated(rlast)
    /\ rprev.ws = rlast.ws /\ rprev.started = rlast.started
    /\ rprev.step = rlast.step
    /\ rprev.at # rlast.at

\* ----------------------------------------------------- identifier properties
\* Two part lists are equal position by position up to case and surrounding
\* whitespace.
SameParts(a, b) ==
    /\ Len(a) = Len(b)
    /\ \A i \in 1..Len(a) :
         ToLower(TrimSpace(a[i])) = ToLower(TrimSpace(b[i]))

\* C11: part lists that are equal position by position up to case and
\* surrounding whitespace get the same identifier, and an identifier starts
\* with its tag followed by "-".
C11_HexIdNormalises ==
    ires.made =>
        /\ SameParts(ires.a, ires.b) => ires.idA = ires.idB
        /\ SubSeq(ires.idA, 1, Len(ires.tag) + 1) = ires.tag \o <<"-">>
        /\ SubSeq(ires.idB, 1, Len(ires.tag) + 1) = ires.tag \o <<"-">>

\* Two lists that differ in case and in surrounding blanks got one
\* identifier.
C11_Witness ==
    /\ ires.made
    /\ ires.a = << <<"W">>, <<" ", "w">> >>
    /\ ires.b = << <<"w", " ">>, <<"W">> >>
    /\ ires.idA = ires.idB

\* C27: in one workspace two distinct relpaths get distinct directory ids
\* and distinct file ids, also when they differ in letter case or
\* surrounding whitespace only.
C27_DistinctKeys ==
    (/\ ires.made
     /\ Len(ires.a) = 2 /\ Len(ires.b) = 2
     /\ ires.a[1] = ires.b[1]
     /\ ires.a[2] # ires.b[2]) => ires.idA # ires.idB

\* ------------------------------------------------------ pipeline properties
Range(q) == {q[i] : i \in 1..Len(q)}

\* The request fails validation as the claim words it.
InvalidRequest(r) ==
    \/ TrimSpace(r.WorkspaceRoot) = Str0
    \/ TrimSpace(r.WorkspaceID) = Str0
    \/ statKind(r.WorkspaceRoot) # "dir"

ScanPcs == {"scan.merge", "scan.walk", "scan.store", "scan.wfiles",
            "scan.wdirs"}

Returned == pc = "returned" /\ op # "none"

\* The invocation's scan stage has failed.
ScanFailed == ~report.nil /\ ~hscanEnd.set /\ op # "embed" /\ pc \notin ScanPcs

FilesPath == ArtifactPath(run.ArtifactDir, "files.ndjson")
DirsPath == ArtifactPath(run.ArtifactDir, "dirs.ndjson")
VectorsPath == ArtifactPath(run.ArtifactDir, "vectors.ndjson")

\* C5: in Scan, Embed and All alike, a request whose workspace root or
\* workspace id is empty after trimming, or whose root is not an existing
\* directory, is answered with an error before a Run exists: the operation
\* has returned, without report, no artifact directory was created, and
\* nothing was done (no store call, no embedder call, no walk step, no file).
C5_ValidationFirst ==
    (op # "none" /\ InvalidRequest(req)) =>
        /\ pc = "returned"
        /\ retErr # ""
        /\ run = NoRun
        /\ report.nil
        /\ trace = <<>>
        /\ adirs = hstart.adirs

\* An All with a file as workspace root was refused after an earlier
\* invocation had created its artifact directory.
C5_Witness ==
    /\ Returned /\ op = "all" /\ nruns = 2
    /\ statKind(req.WorkspaceRoot) = "file"
    /\ retErr = "workspace root is not a directory"
    /\ adirs # {}

C7_AllEmbedFails ==
    (Returned /\ op = "all" /\ hscanEnd.set /\ retErr # "") =>
        /\ ~report.nil
        /\ report.Acceptance = "fail"
        /\ FilesPath \in Range(report.ArtifactPaths)
        /\ DirsPath \in Range(report.ArtifactPaths)
        /\ VectorsPath \notin Range(report.ArtifactPaths)
        /\ \E i \in 1..Len(report.Risks) :
             /\ report.Risks[i].prefix = "embedding failed: "
             /\ report.Risks[i].text = retErr

\* An All whose embedding met a count mismatch of the embedding service.
C7_Witness ==
    /\ Returned /\ op = "all" /\ hscanEnd.set
    /\ retErr = "embed response count mismatch"

HasRisk(text) == \E i \in 1..Len(report.Risks) : report.Risks[i].text = text

C9_FailedReportListsArtifacts ==
    (Returned /\ ~report.nil /\ report.Acceptance = "fail") =>
        Range(run.artifacts) \subseteq Range(report.ArtifactPaths)

\* C10: when a scan succeeds on the workspace root the last scan before it
\* succeeded on, with the same workspace id, it has issued the same record
\* keys and the same edges as that one, and the store's rows and edges at
\* its end are those the invocation started with.
C10_RescanIdempotent ==
    (/\ hscanEnd.set /\ hprev.done
     /\ hprev.ws = run.WorkspaceID /\ hprev.root = run.WorkspaceRoot) =>
        /\ hissued = hprev.issued
        /\ hscanEnd.rows = hstart.rows
        /\ hscanEnd.edges = hstart.edges

\* A second Scan has passed, after directories and files were stored.
C10_Witness ==
    /\ Returned /\ op = "scan" /\ report.Acceptance = "pass"
    /\ hscanEnd.set /\ hprev.done
    /\ hprev.ws = run.WorkspaceID /\ hprev.root = run.WorkspaceRoot
    /\ \E k \in hissued.keys : k[1] = "file"
    /\ \E k \in hissued.keys : k[1] = "directory"
    /\ hissued.edges # {}

\* The position in the trace at which the context was cancelled during the
\* scan walk, 0 when it was not.
CancelAt ==
    IF \E i \in 2..Len(trace) :
          /\ trace[i] = Ev("ctx", "cancel")
          /\ trace[i - 1] \in {Ev("scan", "merge"), Ev("scan", "walk")}
    THEN CHOOSE i \in 2..Len(trace) :
            /\ trace[i] = Ev("ctx", "cancel")
            /\ trace[i - 1] \in {Ev("scan", "merge"), Ev("scan", "walk")}
    ELSE 0

\* What holds after a cancellation during the scan walk, whatever the error
\* returned: one more entry at most is visited, on which the invocation
\* returns a failed report; it upserts no directory or file row, makes no
\* edge and writes no artifact file, and leaves the directory and file rows
\* and the edges of earlier invocations as they were.
CancelStopsScan ==
    /\ Len(trace) <= CancelAt + 1
    /\ Len(trace) = CancelAt + 1 =>
         /\ trace[CancelAt + 1] = Ev("scan", "walk")
         /\ pc = "returned"
         /\ report.Acceptance = "fail"
         /\ HasRisk(retErr)
    /\ pc # "returned" => pc = "scan.walk"
    /\ hissued = NoIssued
    /\ edges = hstart.edges
    /\ \A i \in 1..Len(trace) :
         trace[i].stage = "scan" => trace[i].what \in {"merge", "walk"}
    /\ \A k \in DOMAIN hstart.rows :
         k[1] # "workspace" => (k \in DOMAIN rows /\ rows[k] = hstart.rows[k])
    /\ \A k \in DOMAIN rows : k[1] # "workspace" => k \in DOMAIN hstart.rows

\* C24 as stated: after a cancellation during the scan walk the walk stops
\* at the next entry and the error returned is the cancellation error.
C24_CancelReturnsCtxErr ==
    CancelAt > 0 =>
        /\ CancelStopsScan
        /\ pc = "returned" => retErr = "context canceled"

\* C24: after a cancellation during the scan walk the walk stops at the
\* next entry, and the error returned is the cancellation error, or the
\* walk's own error for that entry when it has one.
C24_CancelAbortsScan ==
    CancelAt > 0 =>
        /\ CancelStopsScan
        /\ pc = "returned" => retErr \in {"context canceled", "walk error"}

\* A second invocation was cancelled after it had visited entries, and has
\* returned the cancellation error; the store holds the rows of the first.
C24_Witness ==
    /\ CancelAt > 3 /\ pc = "returned" /\ nruns = 2
    /\ retErr = "context canceled"
    /\ \E k \in DOMAIN hstart.rows : k[1] = "file"

\* Is p the relpath of the directory that holds the entry with relpath c?
\* The root ("") holds the entries whose relpath has no slash.
HoldsRel(p, c) ==
    /\ c # Str0
    /\ IF p = Str0 THEN \A i \in 1..Len(c) : c[i] # "/"
       ELSE /\ Len(c) > Len(p) + 1
            /\ SubSeq(c, 1, Len(p) + 1) = p \o <<"/">>
            /\ \A i \in (Len(p) + 2)..Len(c) : c[i] # "/"

\* The rows of a table this invocation upserted during its scan.
ScanIssued(table) ==
    {k \in hissued.keys : k[1] = table /\ k \in DOMAIN hscanEnd.rows}

\* An edge of the store.
EdgeOf(from, relation, to) == [from |-> from, rel |-> relation, to |-> to]

\* C25: after a successful scan every directory it upserted has the edge
\* from the workspace; every directory but the root has the edge from its
\* parent directory and every file the edge from the directory holding it,
\* the source being a directory row the same scan upserted; the root has
\* relpath "" and no edge from a parent.
C25_ScanEdges ==
    (op \in {"scan", "all"} /\ hscanEnd.set) =>
        /\ \A d \in ScanIssued("directory") :
             LET rel == hscanEnd.rows[d].relpath
             IN  /\ EdgeOf(Key("workspace", req.WorkspaceID),
                           "ws_contains_dir", d) \in hscanEnd.edges
                 /\ rel # Str0 =>
                      \E p \in ScanIssued("directory") :
                         /\ HoldsRel(hscanEnd.rows[p].relpath, rel)
                         /\ EdgeOf(p, "dir_contains_dir", d)
                                \in hscanEnd.edges
                 /\ rel = Str0 =>
                      \A e \in hissued.edges :
                         ~(e.rel = "dir_contains_dir" /\ e.to = d)
        /\ \A f \in ScanIssued("file") :
             \E p \in ScanIssued("directory") :
                /\ HoldsRel(hscanEnd.rows[p].relpath,
                            hscanEnd.rows[f].relpath)
                /\ EdgeOf(p, "dir_contains_file", f) \in hscanEnd.edges
        /\ \A e \in hissued.edges :
             e.rel \in {"dir_contains_dir", "dir_contains_file"} =>
                e.from \in ScanIssued("directory")

\* A scan has ended well that upserted the root, a directory below it, a
\* file of the root and a file of the directory below.
C25_Witness ==
    /\ op \in {"scan", "all"} /\ hscanEnd.set
    /\ Cardinality(ScanIssued("directory")) >= 2
    /\ \E f \in ScanIssued("file") :
          \E i \in 1..Len(hscanEnd.rows[f].relpath) :
             hscanEnd.rows[f].relpath[i] = "/"
    /\ \E f \in ScanIssued("file") :
          \A i \in 1..Len(hscanEnd.rows[f].relpath) :
             hscanEnd.rows[f].relpath[i] # "/"

\* The store calls (merge, upsert, relate) among the events.
IsStoreEvent(e) == e.what \in {"merge", "upsert", "relate"}
IsWriteEvent(e) ==
    e.what \in {"write files.ndjson", "write dirs.ndjson",
                "write vectors.ndjson"}

\* The artifact path an event wrote.
WrittenPath(e) ==
    IF e.what = "write files.ndjson" THEN FilesPath
    ELSE IF e.what = "write dirs.ndjson" THEN DirsPath
    ELSE VectorsPath

\* C29: an artifact file is written only when the store calls of its stage
\* are all made and have succeeded: no store call of the stage follows the
\* write, at the write nothing is left to store and the store holds a row
\* under the key of every record the file lists; a path is registered with
\* the run, and listed in the report, only after its file was written, and
\* the store then holds a row for every record the file lists.
C29_ArtifactAfterStore ==
    /\ \A i \in 1..Len(trace) :
         IsWriteEvent(trace[i]) =>
            /\ \A j \in (i + 1)..Len(trace) :
                 ~(IsStoreEvent(trace[j]) /\ trace[j].stage = trace[i].stage)
            /\ trace[i].lists \subseteq DOMAIN rows
    /\ pc \in {"scan.wfiles", "scan.wdirs"} =>
         /\ ops = <<>>
         /\ \A i \in 1..Len(files) :
              Key("file", fileID(run.WorkspaceID, files[i].RelPath))
                 \in DOMAIN rows
         /\ \A i \in 1..Len(dirs) :
              Key("directory", dirID(run.WorkspaceID, dirs[i].RelPath))
                 \in DOMAIN rows
         /\ \A i \in 1..Len(scanOps(run.WorkspaceID, dirs, files)) :
              LET o == scanOps(run.WorkspaceID, dirs, files)[i]
              IN  o.kind = "relate" =>
                     [from |-> o.from, rel |-> o.rel, to |-> o.to] \in edges
    /\ pc = "embed.write" => ops = <<>>
    /\ \A i \in 1..Len(run.artifacts) :
         \E j \in 1..Len(trace) :
            IsWriteEvent(trace[j]) /\ WrittenPath(trace[j]) = run.artifacts[i]
    /\ ~report.nil =>
         \A i \in 1..Len(report.ArtifactPaths) :
            \E j \in 1..Len(trace) :
               /\ IsWriteEvent(trace[j])
               /\ WrittenPath(trace[j]) = report.ArtifactPaths[i]
               /\ report.ArtifactPaths[i] \in afiles
               /\ trace[j].lists \subseteq DOMAIN rows

\* An All run has returned a report that lists the three artifacts, each of
\* which lists records.
C29_Witness ==
    /\ Returned /\ op = "all" /\ Len(report.ArtifactPaths) = 3
    /\ \A j \in 1..Len(trace) :
         IsWriteEvent(trace[j]) => trace[j].lists # {}
    /\ \E j \in 1..Len(trace) : trace[j].what = "write vectors.ndjson"

\* The key of the file row of chunk i.
ChunkFileKey(i) == Key("file", fileID(run.WorkspaceID, chunks[i].RelPath))

\* C30: in an All run every file the embedding chunks is a file the scan of
\* the same run upserted, under the same relpath, and the file ids in the
\* vector_chunk rows and the file->vector edges the run writes are the ids
\* of file rows that scan upserted.
C30_EmbedFilesScanned ==
    (op = "all" /\ hscanEnd.set) =>
        /\ \A i \in 1..Len(chunks) :
             /\ ChunkFileKey(i) \in ScanIssued("file")
             /\ hscanEnd.rows[ChunkFileKey(i)].relpath = chunks[i].RelPath
             /\ rows[ChunkFileKey(i)] = hscanEnd.rows[ChunkFileKey(i)]
        /\ \A i \in 1..Len(ops) :
             /\ (ops[i].kind = "upsert" /\ ops[i].table = "vector_chunk") =>
                   ops[i].fields.file \in ScanIssued("file")
             /\ (ops[i].kind = "relate" /\ ops[i].rel = "file_has_vector") =>
                   ops[i].from \in ScanIssued("file")
        /\ \A k \in DOMAIN rows :
             (k[1] = "vector_chunk"
                /\ (k \notin DOMAIN hstart.rows \/ rows[k] # hstart.rows[k])) =>
                  rows[k].file \in ScanIssued("file")
        /\ \A e \in edges \ hstart.edges :
             e.rel = "file_has_vector" => e.from \in ScanIssued("file")

\* An All run is storing the chunks of two files, one of them below a
\* directory, and has written a vector_chunk row.
C30_Witness ==
    /\ op = "all" /\ hscanEnd.set /\ pc = "embed.store"
    /\ \E i, j \in 1..Len(chunks) :
          /\ chunks[i].RelPath # chunks[j].RelPath
          /\ \E x \in 1..Len(chunks[i].RelPath) : chunks[i].RelPath[x] = "/"
    /\ \E k \in DOMAIN rows :
          k[1] = "vector_chunk" /\ k \notin DOMAIN hstart.rows
    /\ \E e \in edges \ hstart.edges : e.rel = "file_has_vector"

\* The invocation has begun its embedding stage.
EmbedBegun == \E i \in 1..Len(trace) : trace[i].stage = "embed"

\* C21: in All, no step of the scan stage comes after a step of the
\* embedding stage; once the embedding has begun the scan has returned with
\* success (its store calls are all made) and files.ndjson and dirs.ndjson
\* are written; the report carries the id of the one Run of the invocation,
\* and a passed report lists files.ndjson, dirs.ndjson and vectors.ndjson of
\* that Run's artifact directory.
C21_ScanBeforeEmbed ==
    op = "all" =>
        /\ \A i \in 1..Len(trace) : \A j \in (i + 1)..Len(trace) :
             trace[i].stage = "embed" => trace[j].stage # "scan"
        /\ EmbedBegun =>
             /\ hscanEnd.set
             /\ {FilesPath, DirsPath} \subseteq afiles
             /\ \E i \in 1..Len(trace) :
                  trace[i].what = "write files.ndjson"
             /\ \E i \in 1..Len(trace) :
                  trace[i].what = "write dirs.ndjson"
        /\ ~report.nil => report.RunID = run.RunID
        /\ (Returned /\ report.Acceptance = "pass") =>
             report.ArtifactPaths = <<FilesPath, DirsPath, VectorsPath>>

\* An All has passed after store calls of both stages.
C21_Witness ==
    /\ Returned /\ op = "all" /\ report.Acceptance = "pass"
    /\ \E i \in 1..Len(trace) : trace[i] = Ev("scan", "upsert")
    /\ \E i \in 1..Len(trace) : trace[i] = Ev("embed", "upsert")
    /\ {FilesPath, DirsPath, VectorsPath} \subseteq afiles

\* ------------------------------------------------------- embedding properties
\* storeEmbeddings has made all its store calls in this invocation.
EmbedStored == pc = "embed.write"

\* The length of the first non-empty vector among this run's chunks.
RunNativeDim ==
    IF \E i \in 1..Len(chunks) : Len(chunks[i].Vector) > 0
    THEN Len(chunks[CHOOSE i \in 1..Len(chunks) :
                      /\ Len(chunks[i].Vector) > 0
                      /\ \A j \in 1..(i - 1) : Len(chunks[j].Vector) = 0].Vector)
    ELSE 0

\* This run's chunks whose vector has d components.
ChunksOfDim(d) == {i \in 1..Len(chunks) : Len(chunks[i].Vector) = d}

RECURSIVE SumComponent(_, _)
\* The sum of component k over the chunks with index in S.
SumComponent(S, k) ==
    IF S = {} THEN 0
    ELSE LET i == CHOOSE j \in S : TRUE
         IN  chunks[i].Vector[k] + SumComponent(S \ {i}, k)

ModelKey == Key("vector_model", modelIdentifier(EmbedModel))
CentroidKey ==
    Key("workspace_vector",
        hexID(<<"wsv">>, <<run.WorkspaceID, modelIdentifier(EmbedModel),
                           <<"centroid@file">>>>))

\* C12: once storeEmbeddings is through, the stored centroid has as many
\* components as the native dimension d, component k is the sum of component
\* k over this run's chunks with d components divided by their number, the
\* stored sample is that number, and it is the number of all chunks when
\* all have d components. (A quotient is kept as <<sum, number>>.)
C12_Centroid ==
    EmbedStored =>
        /\ CentroidKey \in DOMAIN rows
        /\ Len(rows[CentroidKey].vector) = RunNativeDim
        /\ \A k \in 1..RunNativeDim :
             rows[CentroidKey].vector[k] =
                <<SumComponent(ChunksOfDim(RunNativeDim), k),
                  Cardinality(ChunksOfDim(RunNativeDim))>>
        /\ rows[CentroidKey].sample = Cardinality(ChunksOfDim(RunNativeDim))
        /\ (\A i \in 1..Len(chunks) : Len(chunks[i].Vector) = RunNativeDim)
              => rows[CentroidKey].sample = Len(chunks)

\* A second embedding run stored a centroid over two of its three chunks,
\* the third having another dimension.
C12_Witness ==
    /\ EmbedStored /\ nruns = 2
    /\ Len(chunks) = 3
    /\ RunNativeDim = 2
    /\ Cardinality(ChunksOfDim(2)) = 2
    /\ rows[CentroidKey].vector = << <<6, 2>>, <<10, 2>> >>

\* The errors with which the WalkDir of performScan ends: an error handed to
\* the callback, cancellation, a failing d.Info(), a failing hashFile.
WalkErrors == {"walk error", "context canceled", "entry info", "hash file"}

\* Scan or All has returned because the walk of its scan stage failed.
WalkFailed == Returned /\ op \in {"scan", "all"} /\ retErr \in WalkErrors

\* C17: when the walk of the scan stage returns an error, the invocation has
\* issued no store call (no merge, upsert or relate) and written no artifact
\* file: its scan stage did nothing but walk, and the store is as it was
\* when the invocation began.
C17_WalkErrorWritesNothing ==
    WalkFailed =>
        /\ \A i \in 1..Len(trace) :
             trace[i].stage = "scan" => trace[i].what = "walk"
        /\ rows = hstart.rows
        /\ edges = hstart.edges

\* The chunks of the invocation are collected and not yet given up.
ChunksHeld == pc \in {"embed.batch", "embed.store", "embed.write"}

\* Call number b of the embedding service in this invocation.
Batch(b) == hcall.calls[b]

\* C22: the calls of the embedding service are made in batch order, call b
\* carrying the texts of the next embedBatchSize chunks of the collected
\* list, or of those that are left; the list holds the files in walk order
\* and each file's chunks in index order; and once all batches are answered
\* the chunk at position k (from 0) carries vector k mod embedBatchSize of
\* the reply to call k div embedBatchSize.
C22_BatchOrder ==
    /\ \A b \in 1..Len(hcall.calls) :
         Batch(b).first = (b - 1) * embedBatchSize
    /\ ChunksHeld =>
         /\ \A b \in 1..Len(hcall.calls) :
              /\ Len(Batch(b).texts)
                    = Min(embedBatchSize, Len(chunks) - Batch(b).first)
              /\ \A k \in 1..Len(Batch(b).texts) :
                   Batch(b).texts[k] = chunks[Batch(b).first + k].Text
         /\ run.WorkspaceRoot = RootDir =>
              /\ Len(chunks) = Len(walkedChunks)
              /\ \A x \in 1..Len(chunks) :
                   /\ chunks[x].RelPath = walkedChunks[x].RelPath
                   /\ chunks[x].Index = walkedChunks[x].Index
                   /\ chunks[x].Text = walkedChunks[x].Text
    /\ (hcall.made /\ pc \in {"embed.store", "embed.write"}) =>
         \A k \in 0..(Len(chunks) - 1) :
            chunks[k + 1].Vector
               = Batch((k \div embedBatchSize) + 1).vectors[
                    (k % embedBatchSize) + 1]

\* Two calls were answered with vectors that differ within the first reply
\* and the vectors are attached.
C22_Witness ==
    /\ pc = "embed.store"
    /\ Len(hcall.calls) = 2
    /\ Batch(1).vectors = << <<1>>, <<3, 5>> >>
    /\ Batch(2).vectors = << <<1>> >>
    /\ chunks[2].Vector = <<3, 5>>

\* The row storeEmbeddings writes for chunk i of this run.
ChunkKey(i) ==
    Key("vector_chunk",
        vectorChunkID(run.WorkspaceID,
                      fileID(run.WorkspaceID, chunks[i].RelPath),
                      <<"chunk">>, chunks[i].Index))

\* C16: once storeEmbeddings is through, the vector_model row holds the
\* native dimension (the length of the first non-empty vector), and the
\* vector_chunk row of every chunk of the run holds this same dimension,
\* whatever the lengths of the vectors the service returned.
C16_NativeDimOnEveryChunk ==
    EmbedStored =>
        /\ rows[ModelKey].native_dim = RunNativeDim
        /\ \A i \in 1..Len(chunks) :
             /\ ChunkKey(i) \in DOMAIN rows
             /\ rows[ChunkKey(i)].native_dim = RunNativeDim

\* The last reply of the embedding service was short of vectors or held an
\* empty one.
BadReply ==
    /\ hcall.made
    /\ \/ hcall.reply = "count"
       \/ /\ hcall.reply = "vectors"
          /\ \E k \in 1..Len(hcall.vectors) : Len(hcall.vectors[k]) = 0

\* What the embedding stage does after the embedding calls.
AfterVectors(e) ==
    /\ e.stage = "embed"
    /\ e.what \in {"upsert", "relate", "write vectors.ndjson"}

\* C13: when a call of the embedding service comes back with a wrong number
\* of vectors or with an empty vector, the operation has failed with an
\* error (for the empty vector one that names the file of a chunk whose
\* vector was empty), that call is the last thing the invocation did (no
\* later batch), no vector_model, vector_chunk or centroid row was written
\* and vectors.ndjson was not written.
C13_BadReplyFails ==
    BadReply =>
        /\ pc = "returned"
        /\ report.Acceptance = "fail"
        /\ hcall.reply = "count" => retErr = "embed response count mismatch"
        /\ hcall.reply = "vectors" =>
              \E k \in 1..Len(hcall.vectors) :
                 /\ Len(hcall.vectors[k]) = 0
                 /\ retErr = "embedding returned empty vector for "
                               \o Str(hcall.files[k])
        /\ trace[Len(trace)] = Ev("embed", "embed call")
        /\ \A i \in 1..Len(trace) : ~AfterVectors(trace[i])

\* The second batch of an All came back with an empty vector, after a first
\* batch of two.
C13_Witness ==
    /\ BadReply /\ Returned /\ op = "all"
    /\ hcall.reply = "vectors"
    /\ Len(hcall.files) = 1
    /\ Cardinality({i \in 1..Len(trace) :
                      trace[i] = Ev("embed", "embed call")}) = 2

\* The entry at position i of the tree walked from root is a directory with
\* a skipped name, or lies below one.
Skipped(root, i) ==
    \E j \in 1..Len(TreeOf(root)) :
        /\ TreeOf(root)[j].kind = "dir"
        /\ shouldSkipDir(BaseName(PathOf(root, TreeOf(root)[j])))
        /\ j = i \/ Below(TreeOf(root)[i], TreeOf(root)[j].rel)

\* The files below root that the embedding takes: regular, not skipped,
\* not empty, not above the size limit, without NUL byte.
EligibleFiles(root) ==
    {i \in 1..Len(TreeOf(root)) :
        /\ TreeOf(root)[i].kind = "file"
        /\ ~Skipped(root, i)
        /\ TreeOf(root)[i].size > 0
        /\ TreeOf(root)[i].size <= maxEmbedFileBytes
        /\ \A k \in 1..Len(TreeOf(root)[i].content) :
              TreeOf(root)[i].content[k] # "00"}

\* Entry i of the tree of root is, or lies below, a directory other than the
\* root itself that has one of the six names.
InNoiseDir(root, i) ==
    \E j \in 1..Len(TreeOf(root)) :
        /\ TreeOf(root)[j].kind = "dir"
        /\ TreeOf(root)[j].rel # Str0
        /\ shouldSkipDir(BaseName(TreeOf(root)[j].rel))
        /\ j = i \/ Below(TreeOf(root)[i], TreeOf(root)[j].rel)

\* The relpaths of the entries of one kind outside those directories.
Expected(root, kind) ==
    {TreeOf(root)[i].rel : i \in {j \in 1..Len(TreeOf(root)) :
                                    /\ TreeOf(root)[j].kind = kind
                                    /\ ~InNoiseDir(root, j)}}

\* C18: when the walk of the scan stage is through, its directory records
\* are the directories of the tree, the root included whatever its name,
\* that neither are nor lie below a directory named .git, .hg, .svn,
\* node_modules, .idea or .vscode in any letter case, and its file records
\* are the regular files outside those directories.
C18_AllButNoiseScanned ==
    pc \in {"scan.store", "scan.wfiles", "scan.wdirs"} =>
        /\ {dirs[k].RelPath : k \in 1..Len(dirs)}
              = Expected(run.WorkspaceRoot, "dir")
        /\ {files[k].RelPath : k \in 1..Len(files)}
              = Expected(run.WorkspaceRoot, "file")

EmbedOp == op \in {"embed", "all"} /\ run # NoRun

MissingVector == \E i \in 1..Len(chunks) : Len(chunks[i].Vector) = 0

EmbedFailed ==
    /\ pc = "returned" /\ retErr # "" /\ report.Acceptance = "fail"
    /\ \A i \in 1..Len(trace) : trace[i].what # "write vectors.ndjson"

\* C14, on states: with no eligible file below the root, Embed and All make
\* no call of the embedding service, no store write of the embedding and no
\* vectors.ndjson, and return failed; and the vectors.ndjson write is only
\* reached with a vector on every chunk (so with a native dimension).
C14_State ==
    /\ (EmbedOp /\ EligibleFiles(run.WorkspaceRoot) = {}) =>
          /\ pc \notin {"embed.batch", "embed.store", "embed.write"}
          /\ \A i \in 1..Len(trace) :
                trace[i].stage = "embed" => trace[i].what = "walk"
          /\ pc = "returned" => EmbedFailed
    /\ pc = "embed.write" => (chunks # <<>> /\ ~MissingVector)

\* C14, on steps: from a state where storeEmbeddings runs on chunks of which
\* one has no vector (or none has, so that there is no native dimension),
\* the invocation goes on storing or returns failed, without vectors.ndjson.
C14_Step ==
    (pc = "embed.store" /\ MissingVector) =>
        (pc' = "embed.store" \/ EmbedFailed')

\* C14: Embed, alone or inside All, fails the step with acceptance fail and
\* no vectors.ndjson when no eligible file yields a chunk (then without any
\* embedder call or store write), when a chunk has no vector after the
\* embedding calls, and when no chunk has a vector to take the native
\* dimension from.
C14_EmbedFailsWhole == [](C14_State) /\ [][C14_Step]_vars

\* An All on a root without eligible file: its scan passed, its embedding
\* failed for want of files.
C14_Witness ==
    /\ Returned /\ op = "all" /\ hscanEnd.set
    /\ run.WorkspaceRoot = RootBare
    /\ retErr = "no embeddable files discovered"
    /\ report.Acceptance = "fail"

\* storeEmbeddings failed on chunks of which the second has no vector, after
\* it had written the model row and the first chunk.
C14_MissingVectorReached ==
    /\ Returned /\ retErr = "surreal ops (embed)"
    /\ hcall = NoEmbedCall
    /\ \E k \in DOMAIN rows : k[1] = "vector_chunk"
    /\ \A k \in DOMAIN rows : k[1] # "workspace_vector"

\* ----------------------------------------------------------- artifact calls
\* AddArtifact and Artifacts called on one Run, and a caller that writes
\* into the slice Artifacts returned.
ArtPaths == {Str0, <<" ">>, <<"p">>, <<"q">>}

\* A slice handed to the caller: its elements, and whether it is backed by
\* the array of the Run's own list.
NoSlice == [made |-> FALSE, fresh |-> FALSE, shared |-> FALSE, list |-> <<>>]

\* Mutant: Artifacts hands out the Run's own slice.
ArtifactsShared(r) ==
    [made |-> TRUE, fresh |-> TRUE, shared |-> TRUE, list |-> r.artifacts]

\* Run.Artifacts(): a new slice with the elements copied.
Artifacts(r) ==
    [made |-> TRUE, fresh |-> TRUE, shared |-> FALSE, list |-> r.artifacts]

ArtInit ==
    /\ arun = [NoRun EXCEPT !.RunID = <<"R">>, !.Step = StepScan]
    /\ apassed = <<>>
    /\ agot = NoSlice

ArtAdd ==
    /\ Len(apassed) < MaxArtifacts
    /\ \E path \in ArtPaths :
         /\ arun' = AddArtifact(arun, path)
         /\ apassed' = Append(apassed, path)
    /\ agot' = [agot EXCEPT !.fresh = FALSE]
    /\ UNCHANGED <<chunkVars, runVars, pipeVars, sideVars, idVars, execVars,
                   searchVars>>

ArtGet ==
    /\ agot' = Artifacts(arun)
    /\ UNCHANGED <<arun, apassed>>
    /\ UNCHANGED <<chunkVars, runVars, pipeVars, sideVars, idVars, execVars,
                   searchVars>>

\* The caller assigns to an element of the slice it was given; the Run's
\* list changes with it when both have one backing array.
ArtCallerWrites ==
    /\ agot.made
    /\ \E i \in 1..Len(agot.list) :
         /\ agot.list[i] # <<"x">>
         /\ agot' = [agot EXCEPT !.fresh = FALSE, !.list[i] = <<"x">>]
         /\ arun' = IF agot.shared /\ i <= Len(arun.artifacts)
                    THEN [arun EXCEPT !.artifacts[i] = <<"x">>]
                    ELSE arun
    /\ UNCHANGED apassed
    /\ UNCHANGED <<chunkVars, runVars, pipeVars, sideVars, idVars, execVars,
                   searchVars>>

ArtNext == ArtAdd \/ ArtGet \/ ArtCallerWrites

\* -------------------------------------------------------- store client calls
\* The HTTP client of the store: Exec on a list of statements.
ClientNS == <<"n">>
ClientDB == <<"d">>

\* The back quote, a character a TLA+ string cannot hold.
Tick == "BACKQUOTE"

RECURSIVE DoubleTicks(_)
\* strings.ReplaceAll: every back quote of id doubled
DoubleTicks(id) ==
    IF id = <<>> THEN <<>>
    ELSE (IF Head(id) = Tick THEN <<Tick, Tick>> ELSE <<Head(id)>>)
         \o DoubleTicks(Tail(id))

quoteIdent(id) ==
    IF Len(id) > 0 /\ id[1] = Tick /\ id[Len(id)] = Tick THEN id
    ELSE <<Tick>> \o DoubleTicks(id) \o <<Tick>>

\* fmt.Fprintf(&buf, "USE NS %s DB %s;\n", ns, db)
UsePrefix(ns, db) ==
    <<"U", "S", "E", " ", "N", "S", " ">> \o ns
    \o <<" ", "D", "B", " ">> \o db \o <<";", "\n">>

\* execChunk: the line written for one statement.
StatementLine(s) ==
    LET stmt == TrimSpace(s)
    IN  IF stmt = Str0 THEN <<>>
        ELSE stmt \o (IF stmt[Len(stmt)] = ";" THEN <<>> ELSE <<";">>)
             \o <<"\n">>

RECURSIVE StatementLines(_)
StatementLines(stmts) ==
    IF stmts = <<>> THEN <<>>
    ELSE StatementLine(Head(stmts)) \o StatementLines(Tail(stmts))

\* execChunk: the body of the request for a group of statements.
execChunkBody(stmts) ==
    UsePrefix(quoteIdent(ClientNS), quoteIdent(ClientDB))
    \o StatementLines(stmts)

\* Exec: base, the bytes of the preface counted once per request.
baseBytes == Len(UsePrefix(<<Tick, Tick>>, <<Tick, Tick>>))
             + Len(ClientNS) + Len(ClientDB)

\* Mutant: a failed request does not end Exec.
flushKeepsGoing(group, sent, failAt) ==
    IF group = <<>> THEN [sent |-> sent, err |-> ""]
    ELSE [sent |-> Append(sent, [stmts |-> group,
                                 body |-> execChunkBody(group)]),
          err |-> ""]

\* Exec's flush: the group goes out as one request, which fails when it is
\* request number failAt.
flush(group, sent, failAt) ==
    IF group = <<>> THEN [sent |-> sent, err |-> ""]
    ELSE [sent |-> Append(sent, [stmts |-> group,
                                 body |-> execChunkBody(group)]),
          err |-> IF Len(sent) + 1 = failAt
                  THEN "surreal exec chunk failed" ELSE ""]

RECURSIVE ExecFrom(_, _, _, _, _, _)
\* Exec's loop from statement i on, with the group and its size so far.
ExecFrom(statements, i, group, size, sent, failAt) ==
    IF i > Len(statements) THEN flush(group, sent, failAt)
    ELSE
      LET stmt == TrimSpace(statements[i])
          add == Len(stmt) + 1 + 1
          early == Len(group) > 0 /\ size + add > maxBytesPerCall
          f1 == IF early THEN flush(group, sent, failAt)
                ELSE [sent |-> sent, err |-> ""]
          g2 == Append(IF early THEN <<>> ELSE group, stmt)
          s2 == (IF early THEN baseBytes ELSE size) + add
          full == Len(g2) >= maxStatementsPerCall
          f2 == IF full THEN flush(g2, f1.sent, failAt)
                ELSE [sent |-> f1.sent, err |-> ""]
      IN  IF stmt = Str0
          THEN ExecFrom(statements, i + 1, group, size, sent, failAt)
          ELSE IF f1.err # "" THEN f1
          ELSE IF f2.err # "" THEN f2
          ELSE ExecFrom(statements, i + 1, IF full THEN <<>> ELSE g2,
                        IF full THEN baseBytes ELSE s2, f2.sent, failAt)

\* Client.Exec(ctx, statements)
Exec(statements, failAt) ==
    IF Len(statements) = 0 THEN [sent |-> <<>>, err |-> ""]
    ELSE ExecFrom(statements, 1, <<>>, baseBytes, <<>>, failAt)

\* A blank statement, two short ones (one of them closed by a semicolon),
\* one to be trimmed, and a long one.
ExecStatements ==
    { <<" ">>, <<"a">>, <<"b", ";">>, <<" ", "c">>,
      <<"l", "l", "l", "l", "l", "l">> }

RECURSIVE ListsOfLen(_, _)
ListsOfLen(S, n) ==
    IF n = 0 THEN {<<>>}
    ELSE {<<x>> \o q : x \in S, q \in ListsOfLen(S, n - 1)}

NoExec == [made |-> FALSE, statements |-> <<>>, failAt |-> 0,
           sent |-> <<>>, err |-> ""]

ExecInit == eres = NoExec

ExecCall ==
    /\ ~eres.made
    /\ \E n \in 0..MaxStatements, failAt \in 0..MaxStatements :
         \E statements \in ListsOfLen(ExecStatements, n) :
            LET res == Exec(statements, failAt)
            IN  eres' = [made |-> TRUE, statements |-> statements,
                         failAt |-> failAt, sent |-> res.sent,
                         err |-> res.err]
    /\ UNCHANGED <<chunkVars, runVars, pipeVars, sideVars, idVars, artVars,
                   searchVars>>

ExecNext == ExecCall

\* --------------------------------------------------------- text search calls
\* clampLimit(requested, max)
clampLimit(requested, max) ==
    IF requested <= 0 THEN max
    ELSE IF requested > max THEN max
    ELSE requested

\* Search: limit := clampLimit(input.Limit, 100); if limit == 0, limit = 20.
searchLimit(requested) ==
    LET limit == clampLimit(requested, searchMaxLimit)
    IN  IF limit = 0 THEN searchDefaultLimit ELSE limit

\* strings.Contains
Contains(hay, needle) == Index(hay, needle) >= 0

RECURSIVE scanLines(_, _, _, _, _, _, _)
\* The scanner loop of both tools over the lines of one file, from line i
\* on: a match is appended, and the loop ends when the limit is reached.
scanLines(lines, i, rel, needle, caseSensitive, limit, matches) ==
    IF i > Len(lines) THEN matches
    ELSE LET line == lines[i]
             lineForSearch == IF caseSensitive THEN line ELSE ToLower(line)
             hit == Contains(lineForSearch, needle)
             found == IF hit
                      THEN Append(matches, [RelPath |-> rel, LineNumber |-> i,
                                            Snippet |-> TrimSpace(line)])
                      ELSE matches
         IN  IF hit /\ Len(found) >= limit THEN found
             ELSE scanLines(lines, i + 1, rel, needle, caseSensitive, limit,
                            found)

searchNeedle(query, caseSensitive) ==
    IF caseSensitive THEN query ELSE ToLower(query)

\* FileSearchText.Search on a file the store knows. make([]TextMatch, 0,
\* input.Limit) panics on a negative limit.
FileSearch(lines, rel, query, caseSensitive, requested, lookupOK) ==
    IF requested < 0 THEN [panic |-> TRUE, err |-> "", matches |-> <<>>]
    ELSE IF TrimSpace(query) = Str0
    THEN [panic |-> FALSE, err |-> "query is required", matches |-> <<>>]
    ELSE IF ~lookupOK
    THEN [panic |-> FALSE, err |-> "lookup workspace path", matches |-> <<>>]
    ELSE [panic |-> FALSE, err |-> "",
          matches |-> scanLines(lines, 1, rel,
                                searchNeedle(query, caseSensitive),
                                caseSensitive, searchLimit(requested), <<>>)]

RECURSIVE searchFiles(_, _, _, _, _, _)
\* WorkspaceSearchText.Search: the loop over the files of the workspace.
searchFiles(listed, k, needle, caseSensitive, limit, matches) ==
    IF k > Len(listed) \/ Len(matches) >= limit THEN matches
    ELSE IF listed[k].kind # "file"
    THEN searchFiles(listed, k + 1, needle, caseSensitive, limit, matches)
    ELSE searchFiles(listed, k + 1, needle, caseSensitive, limit,
                     scanLines(listed[k].lines, 1, listed[k].rel, needle,
                               caseSensitive, limit, matches))

\* WorkspaceSearchText.Search
WorkspaceSearch(listed, query, caseSensitive, requested, lookupOK) ==
    IF TrimSpace(query) = Str0
    THEN [panic |-> FALSE, err |-> "query is required", matches |-> <<>>]
    ELSE IF ~lookupOK
    THEN [panic |-> FALSE, err |-> "lookup workspace path", matches |-> <<>>]
    ELSE [panic |-> FALSE, err |-> "",
          matches |-> searchFiles(listed, 1,
                                  searchNeedle(query, caseSensitive),
                                  caseSensitive, searchLimit(requested),
                                  <<>>)]

\* Lines: one that holds the query, one that holds it in upper case, one
\* that does not hold it.
SearchLines == {<<"w">>, <<" ", "W">>, <<"y">>}
SearchQueries == {<<"w">>, <<" ">>}

\* The files the store lists for the workspace: one that is gone from the
\* disk, the file under search, and one more with two matching lines.
WorkspaceFiles(lines) ==
    << [rel |-> <<"a">>, kind |-> "missing", lines |-> <<>>],
       [rel |-> <<"b">>, kind |-> "file", lines |-> lines],
       [rel |-> <<"c">>, kind |-> "file",
        lines |-> << <<"w">>, <<"y">>, <<"w">> >>] >>

NoSearch == [made |-> FALSE, tool |-> "", requested |-> 0,
             caseSensitive |-> FALSE, lines |-> <<>>, query |-> <<>>,
             panic |-> FALSE, err |-> "", matches |-> <<>>]

SearchInit == sres = NoSearch

SearchCall ==
    /\ ~sres.made
    /\ \E tool \in {"file", "workspace"}, n \in 0..MaxLines,
          requested \in (-1)..(searchMaxLimit + 1),
          caseSensitive \in BOOLEAN, lookupOK \in BOOLEAN,
          query \in SearchQueries :
         \E lines \in ListsOfLen(SearchLines, n) :
            LET res == IF tool = "file"
                       THEN FileSearch(lines, <<"b">>, query, caseSensitive,
                                       requested, lookupOK)
                       ELSE WorkspaceSearch(WorkspaceFiles(lines), query,
                                            caseSensitive, requested,
                                            lookupOK)
            IN  sres' = [made |-> TRUE, tool |-> tool,
                         requested |-> requested,
                         caseSensitive |-> caseSensitive, lines |-> lines,
                         query |-> query, panic |-> res.panic,
                         err |-> res.err, matches |-> res.matches]
    /\ UNCHANGED <<chunkVars, runVars, pipeVars, sideVars, idVars, artVars, execVars>>

SearchNext == SearchCall

\* ------------------------------------------------------ text search properties
\* C20: a search tool returns at most searchDefaultLimit matches when the
\* limit is omitted (zero) or not positive, never more than searchMaxLimit
\* matches, and never more than a positive limit up to searchMaxLimit.
C20_SearchLimits ==
    sres.made =>
        /\ sres.requested <= 0 => Len(sres.matches) <= searchDefaultLimit
        /\ Len(sres.matches) <= searchMaxLimit
        /\ sres.requested \in 1..searchMaxLimit
              => Len(sres.matches) <= sres.requested

\* The two parts of C20 that do not rest on the default.
SearchWithinMax ==
    sres.made =>
        /\ Len(sres.matches) <= searchMaxLimit
        /\ sres.requested \in 1..searchMaxLimit
              => Len(sres.matches) <= sres.requested

\* ---------------------------------------------------- store client properties
RECURSIVE NonBlankTrimmed(_)
\* The statements that are not blank, trimmed, in input order.
NonBlankTrimmed(statements) ==
    IF statements = <<>> THEN <<>>
    ELSE IF TrimSpace(Head(statements)) = Str0
         THEN NonBlankTrimmed(Tail(statements))
         ELSE <<TrimSpace(Head(statements))>>
              \o NonBlankTrimmed(Tail(statements))

RECURSIVE SentStatements(_)
\* The statements of the requests, one request after the other.
SentStatements(sent) ==
    IF sent = <<>> THEN <<>>
    ELSE Head(sent).stmts \o SentStatements(Tail(sent))

\* The statement closed by a semicolon and a line end.
Closed(stmt) ==
    IF stmt[Len(stmt)] = ";" THEN stmt \o <<"\n">>
    ELSE stmt \o <<";", "\n">>

RECURSIVE ClosedAll(_)
ClosedAll(stmts) ==
    IF stmts = <<>> THEN <<>> ELSE Closed(Head(stmts)) \o ClosedAll(Tail(stmts))

ExpectedPrefix ==
    <<"U", "S", "E", " ", "N", "S", " ", Tick, "n", Tick,
      " ", "D", "B", " ", Tick, "d", Tick, ";", "\n">>

\* q is the first n elements of r.
IsPrefixOf(q, r) == Len(q) <= Len(r) /\ SubSeq(r, 1, Len(q)) = q

\* The smallest number of requests of at most maxStatementsPerCall
\* statements that n statements fit in.
RequestsByCount(n) ==
    (n + maxStatementsPerCall - 1) \div maxStatementsPerCall

\* What the requests hold: the non-blank statements, once and in order, or
\* the first of them when a request failed; each request with the USE
\* preface first and then its statements, each closed by a semicolon.
ExecSends ==
    /\ \A k \in 1..Len(eres.sent) :
         /\ Len(eres.sent[k].stmts) \in 1..maxStatementsPerCall
         /\ eres.sent[k].body
               = ExpectedPrefix \o ClosedAll(eres.sent[k].stmts)
    /\ IsPrefixOf(SentStatements(eres.sent), NonBlankTrimmed(eres.statements))
    /\ eres.err = ""
          => SentStatements(eres.sent) = NonBlankTrimmed(eres.statements)
    /\ eres.err # "" => Len(eres.sent) = eres.failAt
    /\ \A k \in 1..Len(eres.sent) : k = eres.failAt =>
          /\ eres.err # ""
          /\ Len(eres.sent) = k

RECURSIVE StatementBytes(_)
\* The bytes Exec counts for statements: each with two more, for a semicolon
\* and a line end.
StatementBytes(stmts) ==
    IF stmts = <<>> THEN 0
    ELSE Len(Head(stmts)) + 2 + StatementBytes(Tail(stmts))

\* The bytes Exec counts for a request.
CountedBytes(stmts) == baseBytes + StatementBytes(stmts)

RECURSIVE NonBlank(_)
NonBlank(paths) ==
    IF paths = <<>> THEN <<>>
    ELSE IF TrimSpace(Head(paths)) = Str0 THEN NonBlank(Tail(paths))
    ELSE <<Head(paths)>> \o NonBlank(Tail(paths))

\* C15 as stated: the Run's list, and what Artifacts() returns, is every path
\* that was passed to AddArtifact, in call order.
C15_AllPassedPathsKept ==
    /\ arun.artifacts = apassed
    /\ agot.fresh => agot.list = apassed

\* C15: the Run's list, and what Artifacts() returns, is the paths passed to
\* AddArtifact that are not blank (empty or white space only), in call order
\* and with duplicates kept; writing into a returned slice does not change
\* the list.
C15_NonBlankPathsKept ==
    /\ arun.artifacts = NonBlank(apassed)
    /\ agot.fresh => agot.list = NonBlank(apassed)

\* A path, a blank path and the first path again were passed, and the list
\* was read.
C15_Witness ==
    /\ apassed = <<<<"p">>, <<" ">>, <<"p">>>>
    /\ agot.fresh
    /\ agot.list = <<<<"p">>, <<"p">>>>
    /\ arun.artifacts = <<<<"p">>, <<"p">>>>

\* ------------------------------------------------ concurrent scan properties
RECURSIVE WalkedDirs(_, _, _)
\* dirs after a walk without error, from position pos on.
WalkedDirs(root, pos, ds) ==
    IF pos > Len(TreeOf(root)) THEN ds
    ELSE WalkedDirs(root, visitNext(root, pos),
                    visitDirs(root, TreeOf(root)[pos], ds))

RECURSIVE WalkedFiles(_, _, _)
\* files after a walk without error, from position pos on.
WalkedFiles(root, pos, fs) ==
    IF pos > Len(TreeOf(root)) THEN fs
    ELSE WalkedFiles(root, visitNext(root, pos),
                     visitFiles(root, TreeOf(root)[pos], fs))

\* The store calls of one complete scan of the root, after the merge.
CompleteOps(root) ==
    scanOps(ConcWs, WalkedDirs(root, 1, <<>>), WalkedFiles(root, 1, <<>>))

RECURSIVE RowsOfOps(_, _)
\* The rows after the calls were made, one after the other, on rows tbl.
RowsOfOps(tbl, os) ==
    IF os = <<>> THEN tbl
    ELSE RowsOfOps(IF Head(os).kind = "upsert"
                   THEN StoreUpsert(tbl, Head(os).table, Head(os).id,
                                    Head(os).fields)
                   ELSE tbl, Tail(os))

\* The rows and the edges one complete scan of the root leaves in an empty
\* store.
CompleteRows(root) ==
    RowsOfOps(StoreMerge(<<>>, "workspace", ConcWs,
                         [path |-> root, vcs |-> Str0, rev |-> Str0,
                          content_sha |-> Str0]),
              CompleteOps(root))
CompleteEdges(root) ==
    {[from |-> CompleteOps(root)[i].from, rel |-> CompleteOps(root)[i].rel,
      to |-> CompleteOps(root)[i].to] :
        i \in {j \in 1..Len(CompleteOps(root)) :
                  CompleteOps(root)[j].kind = "relate"}}

\* Every row and edge of the shared store is one that a complete scan
\* writes at some point.
ConcOnlyScanWrites ==
    /\ \A k \in DOMAIN crows :
         \/ k \in DOMAIN CompleteRows(croot) /\ crows[k] = CompleteRows(croot)[k]
         \/ \E i \in 1..Len(CompleteOps(croot)) :
               /\ CompleteOps(croot)[i].kind = "upsert"
               /\ k = Key(CompleteOps(croot)[i].table, CompleteOps(croot)[i].id)
               /\ crows[k] = CompleteOps(croot)[i].fields
    /\ cedges \subseteq CompleteEdges(croot)

\* The shared store holds what one complete scan leaves.
ConcConverged ==
    /\ crows = CompleteRows(croot)
    /\ cedges = CompleteEdges(croot)

\* C26: while two scans of one workspace run against one store, the store
\* holds only rows and edges one complete scan writes, and from the moment
\* one of them has completed it holds the rows and edges of one complete
\* scan.
C26_ConcurrentScans ==
    croot # Str0 =>
        /\ ConcOnlyScanWrites
        /\ (\E p \in ConcProcs : cproc[p].pc = "done") => ConcConverged

\* The same for a workspace in which no two relpaths are equal up to letter
\* case and surrounding white space.
ConcScansOfDistinctKeys ==
    croot = RootDir =>
        /\ ConcOnlyScanWrites
        /\ (\E p \in ConcProcs : cproc[p].pc = "done") => ConcConverged

\* One scan has completed while the other is still writing to the store.
ConcOneDoneOneWriting ==
    \E p, q \in ConcProcs : cproc[p].pc = "done" /\ cproc[q].pc = "store"

\* ---------------------------------------------------- PTY session properties
\* The session's process runs and nobody closed it.
PtyLive(k) == ~psess[k].exited /\ ~psess[k].closed

\* C28: every PTY that was started and stored, and has neither exited nor
\* been closed, is the session registered under the id; and no removal
\* issued for one session deletes the entry of another.
C28_LivePtyRegistered ==
    /\ \A k \in 1..Len(psess) :
         (psess[k].stored /\ PtyLive(k)) => preg = k
    /\ \A r \in premoved : r[1] = r[2]

\* No removal issued for one session deletes the entry of another, and the
\* entry is a session that was stored.
PtyRemovalsExact ==
    /\ \A r \in premoved : r[1] = r[2]
    /\ preg # 0 => (preg \in 1..Len(psess) /\ psess[preg].stored)

\* A removal issued for a replaced session left the newer session in the
\* registry.
PtyOldRemovalSeen ==
    /\ Len(psess) >= 2 /\ preg = 2
    /\ psess[1].stored /\ psess[1].cb = "done" /\ psess[1].target = 1

\* ------------------------------------------------------------ specifications
InitAll == ChunkInit /\ RunInit /\ PipeInit /\ IdInit /\ ArtInit /\ ExecInit
           /\ SearchInit /\ ConcInit /\ PtyInit

SpecChunk == InitAll /\ [][ChunkNext]_vars

SpecRun == InitAll /\ [][RunNext]_vars

SpecId == InitAll /\ [][IdNext]_vars

SpecArt == InitAll /\ [][ArtNext]_vars

SpecExec == InitAll /\ [][ExecNext]_vars

SpecSearch == InitAll /\ [][SearchNext]_vars

SpecConc == InitAll /\ [][ConcNext]_vars

SpecPty == InitAll /\ [][PtyNext]_vars

Next ==
    \/ BeginScan \/ BeginEmbed \/ BeginAll \/ Cancel
    \/ ScanMerge \/ ScanVisit \/ ScanStoreStep
    \/ ScanWriteFiles \/ ScanWriteDirs
    \/ EmbedVisit \/ EmbedBatch \/ EmbedStoreStep \/ EmbedWrite

Spec == InitAll /\ [][Next]_vars

NextEmbedTail == Next \/ StoreEmbeddingsEntry

SpecEmbedTail == InitAll /\ [][NextEmbedTail]_vars

====
